---- MODULE Spec2Model ----
(***************************************************************************)
(* ISO-TP (ISO 15765-2) segmentation / reassembly engine and frame codec.  *)
(* Frames are byte sequences; a context is a record of the fields of       *)
(* struct isotp_ctx_s; the blocking engines isotp_send / isotp_recv are    *)
(* cut into steps at every blocking call (can_tx, can_rx, sleep).          *)
(***************************************************************************)
EXTENDS Integers, Sequences, FiniteSets, TLC

VARIABLES sctx, send_buf, s_pc, s_rc, s_loc,
          rctx, recv_buf, r_pc, r_rc, r_loc,
          s2r, r2s, now, hist

vars == <<sctx, send_buf, s_pc, s_rc, s_loc,
          rctx, recv_buf, r_pc, r_rc, r_loc,
          s2r, r2s, now, hist>>

-----------------------------------------------------------------------------
(* Error codes                                                             *)
EOK == 0
EFAULT == 14
EINVAL == 22
ERANGE == 34
EOVERFLOW == 75
EMSGSIZE == 90
ENOMSG == 91
EBADMSG == 92
ENOBUFS == 105
ETIMEDOUT == 110
ECONNABORTED == 130
ENOTSUP == 134

INT_MAX == 2147483647
UINT8_MAX == 255

-----------------------------------------------------------------------------
(* CAN helpers                                                             *)
CAN_MAX_DATALEN == 8
CANFD_MAX_DATALEN == 64
CAN_PADDING == 204

Min(a, b) == IF a < b THEN a ELSE b
Max(a, b) == IF a > b THEN a ELSE b

can_max_datalen(format) ==
    IF format = "CAN_FORMAT" THEN CAN_MAX_DATALEN
    ELSE IF format = "CANFD_FORMAT" THEN CANFD_MAX_DATALEN
    ELSE -EINVAL

can_datalen_to_dlc(datalen, format) ==
    IF datalen < 0 THEN -EINVAL
    ELSE IF format = "CAN_FORMAT"
         THEN (IF datalen <= CAN_MAX_DATALEN THEN datalen ELSE -EINVAL)
    ELSE IF format = "CANFD_FORMAT"
         THEN (IF datalen <= 8 THEN datalen
               ELSE IF datalen <= 12 THEN 9
               ELSE IF datalen <= 16 THEN 10
               ELSE IF datalen <= 20 THEN 11
               ELSE IF datalen <= 24 THEN 12
               ELSE IF datalen <= 32 THEN 13
               ELSE IF datalen <= 48 THEN 14
               ELSE IF datalen <= CANFD_MAX_DATALEN THEN 15
               ELSE -EINVAL)
    ELSE -EINVAL

can_dlc_to_datalen(dlc, format) ==
    IF dlc < 0 THEN -EINVAL
    ELSE IF format = "CAN_FORMAT"
         THEN (IF dlc <= 8 THEN dlc ELSE -EINVAL)
    ELSE IF format = "CANFD_FORMAT"
         THEN (IF dlc <= 8 THEN dlc
               ELSE IF dlc <= 15
                    THEN <<12, 16, 20, 24, 32, 48, 64>>[dlc - 8]
               ELSE -EINVAL)
    ELSE -EINVAL

\* The 64-byte scratch buffer of a context.
ZeroFrame == [i \in 1..64 |-> 0]

\* memcpy(&buf[off], src, Len(src)); off is a 0-based C index.
PutBytes(buf, off, src) ==
    [i \in 1..Len(buf) |->
        IF i > off /\ i <= off + Len(src) THEN src[i - off] ELSE buf[i]]

\* memset(&buf[off], val, cnt)
FillBytes(buf, off, cnt, val) ==
    [i \in 1..Len(buf) |-> IF i > off /\ i <= off + cnt THEN val ELSE buf[i]]

\* buf[off .. off+cnt-1] as a sequence (0-based off)
Slice(buf, off, cnt) == [i \in 1..cnt |-> buf[off + i]]

\* pad_can_frame_internal: result length (or error) and the padded buffer.
pad_can_frame_internal(buf, buf_len, format) ==
    IF ~(format \in {"CAN_FORMAT", "CANFD_FORMAT"})
       \/ buf_len < 0 \/ buf_len > can_max_datalen(format)
    THEN [rc |-> -EINVAL, dlc |-> 0, buf |-> buf]
    ELSE LET dlc == can_datalen_to_dlc(buf_len, format)
             expected_len == Max(can_dlc_to_datalen(dlc, format), CAN_MAX_DATALEN)
         IN  [rc |-> expected_len, dlc |-> dlc,
              buf |-> IF expected_len > buf_len
                      THEN FillBytes(buf, buf_len, expected_len - buf_len, CAN_PADDING)
                      ELSE buf]

\* pad_can_frame_len returns the padded length
pad_can_frame_len(buf, buf_len, format) ==
    LET r == pad_can_frame_internal(buf, buf_len, format)
    IN  [rc |-> r.rc, buf |-> r.buf]

\* pad_can_frame returns the DLC
pad_can_frame(buf, buf_len, format) ==
    LET r == pad_can_frame_internal(buf, buf_len, format)
    IN  [rc |-> IF r.rc < 0 THEN r.rc ELSE r.dlc, buf |-> r.buf]

-----------------------------------------------------------------------------
(* Addressing helpers                                                      *)
AddressingModes == {"NORMAL", "NORMAL_FIXED", "EXTENDED", "MIXED"}

address_extension_len(addr_mode) ==
    IF addr_mode \in {"NORMAL", "NORMAL_FIXED"} THEN 0
    ELSE IF addr_mode \in {"EXTENDED", "MIXED"} THEN 1
    ELSE -EFAULT

-----------------------------------------------------------------------------
(* STmin codec                                                             *)
USEC_PER_MSEC == 1000
MAX_STMIN == 127
MAX_STMIN_USEC == MAX_STMIN * USEC_PER_MSEC

\* an encoder that knows whole milliseconds only
fc_stmin_usec_to_parameter_ms(stmin_usec) ==
    IF stmin_usec >= 0 /\ stmin_usec < MAX_STMIN_USEC
    THEN stmin_usec \div USEC_PER_MSEC
    ELSE MAX_STMIN

fc_stmin_usec_to_parameter(stmin_usec) ==
    IF stmin_usec >= 0 /\ stmin_usec < 100 THEN 0
    ELSE IF stmin_usec >= 100 /\ stmin_usec < USEC_PER_MSEC
         THEN 240 + (stmin_usec \div 100)
    ELSE IF stmin_usec >= USEC_PER_MSEC /\ stmin_usec < MAX_STMIN_USEC
         THEN stmin_usec \div USEC_PER_MSEC
    ELSE MAX_STMIN

fc_stmin_parameter_to_usec(stmin_param) ==
    IF stmin_param = 0 THEN 0
    ELSE IF stmin_param >= 241 /\ stmin_param <= 249
         THEN (stmin_param - 240) * 100
    ELSE IF stmin_param > 0 /\ stmin_param <= MAX_STMIN
         THEN stmin_param * USEC_PER_MSEC
    ELSE MAX_STMIN_USEC

-----------------------------------------------------------------------------
(* Context (struct isotp_ctx_s)                                            *)
\* a mask that drops the top bit of the frame type: b & 0x70
PCI_MASK_3BITS(b) == ((b \div 16) % 8) * 16

PCI_MASK_HI(b) == (b \div 16) * 16     \* b & 0xf0
LowNibble(b) == b % 16                 \* b & 0x0f
PCI_SF == 0
PCI_FF == 16
PCI_CF == 32
PCI_FC == 48

ISOTP_DEFAULT_TIMEOUTS == [n_as |-> 1000000, n_ar |-> 1000000,
                           n_bs |-> 1000000, n_cr |-> 1000000]

\* isotp_ctx_init: zeroed context, immutable configuration, then reset.
isotp_ctx_init(can_format, addressing_mode, max_fc_wait_frames, timeouts) ==
    [can_format |-> can_format,
     can_max_datalen |-> can_max_datalen(can_format),
     addressing_mode |-> addressing_mode,
     address_extension_len |-> address_extension_len(addressing_mode),
     address_extension |-> 0,
     can_frame |-> ZeroFrame,
     can_frame_len |-> 0,
     total_datalen |-> 0,
     remaining_datalen |-> 0,
     sequence_num |-> 0,
     timer_start_us |-> 0,
     timeouts |-> timeouts,
     fc_wait_max |-> max_fc_wait_frames,
     fc_wait_count |-> 0]

get_isotp_address_extension(ctx) == ctx.address_extension

set_isotp_address_extension(ctx, ae) == [ctx EXCEPT !.address_extension = ae]

\* Timer helpers: start stamps the clock, expired compares the elapsed time
\* with the bound; a bound of 0 never expires.
timeout_start(ctx, t) == [ctx EXCEPT !.timer_start_us = t]

timeout_elapsed(ctx, t) == t - ctx.timer_start_us

\* the comparison alone, a bound of 0 included
timeout_expired_any(ctx, timeout_us, t) ==
    timeout_elapsed(ctx, t) >= timeout_us

timeout_expired(ctx, timeout_us, t) ==
    timeout_us # 0 /\ timeout_elapsed(ctx, t) >= timeout_us

-----------------------------------------------------------------------------
(* Single Frame codec (isotp_sf.c)                                         *)

\* Copy into the caller's receive buffer; bytes that would land at or past
\* the capacity are outside the object (reported in oob).
WriteBuf(buf, off, src) ==
    [buf |-> [i \in 1..Len(buf) |->
                 IF i > off /\ i <= off + Len(src) THEN src[i - off] ELSE buf[i]],
     oob |-> off < 0 \/ off + Len(src) > Len(buf)]

process_sf_no_esc(ctx, recv_buf_p, recv_buf_sz) ==
    LET sf_pci == ctx.can_frame[ctx.address_extension_len + 1]
        sf_dl  == sf_pci % 8
        fail(e) == [rc |-> -e, ctx |-> ctx, buf |-> recv_buf_p, oob |-> FALSE]
    IN  IF ctx.can_frame_len > can_max_datalen("CAN_FORMAT") THEN fail(EBADMSG)
        ELSE IF PCI_MASK_HI(sf_pci) # PCI_SF THEN fail(ENOMSG)
        ELSE IF sf_dl = 0 THEN fail(ENOTSUP)
        ELSE IF sf_dl = 7 /\ ctx.address_extension_len # 0 THEN fail(ENOTSUP)
        ELSE IF sf_dl > recv_buf_sz THEN fail(ENOBUFS)
        ELSE LET w == WriteBuf(recv_buf_p, 0,
                               Slice(ctx.can_frame, ctx.address_extension_len + 1, sf_dl))
                 c1 == [ctx EXCEPT !.total_datalen = 0, !.remaining_datalen = 0]
                 c2 == IF ctx.address_extension_len > 0
                       THEN [c1 EXCEPT !.address_extension = ctx.can_frame[1]]
                       ELSE c1
             IN  [rc |-> sf_dl, ctx |-> c2, buf |-> w.buf, oob |-> w.oob]

process_sf_with_esc(ctx, recv_buf_p, recv_buf_sz) ==
    LET ae_l   == address_extension_len(ctx.addressing_mode)
        sf_pci == ctx.can_frame[ae_l + 1]
        sf_dl  == ctx.can_frame[ae_l + 2]
        fail(e) == [rc |-> -e, ctx |-> ctx, buf |-> recv_buf_p, oob |-> FALSE]
    IN  IF ae_l < 0 THEN fail(-ae_l)
        ELSE IF ctx.can_frame_len <= can_max_datalen("CAN_FORMAT")
                \/ ctx.can_frame_len > can_max_datalen("CANFD_FORMAT") THEN fail(EBADMSG)
        ELSE IF sf_pci # PCI_SF THEN fail(EBADMSG)
        ELSE IF sf_dl <= 6 THEN fail(ENOTSUP)
        ELSE IF sf_dl = 7 /\ ae_l = 0 THEN fail(ENOTSUP)
        ELSE IF sf_dl = 62 /\ ae_l # 0 THEN fail(ENOTSUP)
        ELSE IF sf_dl > 62 THEN fail(EFAULT)
        ELSE LET w == WriteBuf(recv_buf_p, 0, Slice(ctx.can_frame, ae_l + 2, sf_dl))
                 c1 == [ctx EXCEPT !.total_datalen = 0]
                 c2 == IF ae_l > 0
                       THEN set_isotp_address_extension(c1, ctx.can_frame[1])
                       ELSE c1
             IN  [rc |-> sf_dl, ctx |-> c2, buf |-> w.buf, oob |-> w.oob]

parse_sf(ctx, recv_buf_p, recv_buf_sz) ==
    LET fail(e) == [rc |-> -e, ctx |-> ctx, buf |-> recv_buf_p, oob |-> FALSE]
    IN  IF PCI_MASK_HI(ctx.can_frame[ctx.address_extension_len + 1]) # PCI_SF
        THEN fail(EBADMSG)
        ELSE IF ctx.can_frame_len > can_max_datalen("CANFD_FORMAT") THEN fail(EBADMSG)
        ELSE IF ctx.can_frame_len <= can_max_datalen("CAN_FORMAT")
             THEN process_sf_no_esc(ctx, recv_buf_p, recv_buf_sz)
        ELSE IF ctx.can_format = "CANFD_FORMAT"
             THEN process_sf_with_esc(ctx, recv_buf_p, recv_buf_sz)
        ELSE fail(ENOTSUP)

prepare_sf(ctx, send_buf_p, send_buf_len) ==
    LET c0 == [ctx EXCEPT !.can_frame = ZeroFrame, !.can_frame_len = 0,
                          !.total_datalen = 0, !.remaining_datalen = 0]
        finish(c, hdr) ==
            \* memcpy payload, can_frame_len += len, pad_can_frame (result unused)
            LET f1 == PutBytes(c.can_frame, hdr, Slice(send_buf_p, 0, send_buf_len))
                l1 == hdr + send_buf_len
                p  == pad_can_frame(f1, l1, c.can_format)
            IN  [rc |-> send_buf_len,
                 ctx |-> [c EXCEPT !.can_frame = p.buf, !.can_frame_len = l1]]
    IN  IF ctx.addressing_mode \in {"NORMAL", "NORMAL_FIXED"}
        THEN IF send_buf_len >= 0 /\ send_buf_len <= 7
             THEN finish([c0 EXCEPT !.can_frame[1] = PCI_SF + (send_buf_len % 8)], 1)
             ELSE IF send_buf_len >= 8
                     /\ send_buf_len <= can_max_datalen(ctx.can_format) - 2
                     /\ send_buf_len <= UINT8_MAX
             THEN finish([c0 EXCEPT !.can_frame[1] = PCI_SF,
                                    !.can_frame[2] = send_buf_len % 256], 2)
             ELSE [rc |-> -EOVERFLOW, ctx |-> c0]
        ELSE IF ctx.addressing_mode \in {"EXTENDED", "MIXED"}
        THEN LET c1 == [c0 EXCEPT !.can_frame[1] = ctx.address_extension,
                                  !.can_frame_len = 1]
             IN  IF send_buf_len >= 0 /\ send_buf_len <= 6
                 THEN finish([c1 EXCEPT !.can_frame[2] = PCI_SF + (send_buf_len % 8)], 2)
                 ELSE IF send_buf_len <= can_max_datalen(ctx.can_format) - 3
                 THEN finish([c1 EXCEPT !.can_frame[2] = PCI_SF,
                                        !.can_frame[3] = send_buf_len % 256,
                                        !.total_datalen = 2], 3)
                 ELSE [rc |-> -EOVERFLOW, ctx |-> c1]
        ELSE [rc |-> -EFAULT, ctx |-> c0]

-----------------------------------------------------------------------------
(* Flow Control codec (isotp_fc.c)                                         *)
FC_FS_MASK == 7
FC_FS_CTS == 0
FC_FS_WAIT == 1
FC_FS_OVFLW == 2

\* parse_fc leaves the caller's fs / bs / stmin untouched on an error path.
parse_fc(ctx, fs0, bs0, stmin0) ==
    LET ae_l == address_extension_len(ctx.addressing_mode)
        b    == ctx.can_frame[ae_l + 1]
        fsn  == b % (FC_FS_MASK + 1)        \* b & FC_FS_MASK
        fail(e) == [rc |-> -e, fs |-> fs0, bs |-> bs0, stmin_usec |-> stmin0]
    IN  IF ae_l < 0 THEN fail(-ae_l)
        ELSE IF ctx.can_frame_len < 3 + ae_l THEN fail(EMSGSIZE)
        ELSE IF PCI_MASK_HI(b) # PCI_FC THEN fail(ENOMSG)
        ELSE IF fsn > FC_FS_OVFLW THEN fail(EBADMSG)
        ELSE [rc |-> EOK,
              fs |-> IF fsn = FC_FS_CTS THEN "CTS"
                     ELSE IF fsn = FC_FS_WAIT THEN "WAIT" ELSE "OVFLW",
              bs |-> ctx.can_frame[ae_l + 2],
              stmin_usec |-> fc_stmin_parameter_to_usec(ctx.can_frame[ae_l + 3])]

prepare_fc(ctx, flowstatus, blocksize, stmin_usec) ==
    LET ae_l == address_extension_len(ctx.addressing_mode)
        c0   == [ctx EXCEPT !.can_frame = ZeroFrame, !.can_frame_len = 0]
    IN  IF ae_l < 0 THEN [rc |-> ae_l, ctx |-> ctx]
        ELSE IF flowstatus \in {"NULL", "LAST"} THEN [rc |-> -EINVAL, ctx |-> c0]
        ELSE IF ~(flowstatus \in {"CTS", "WAIT", "OVFLW"})
             THEN [rc |-> -EFAULT, ctx |-> c0]
        ELSE LET fsb == IF flowstatus = "CTS" THEN FC_FS_CTS
                        ELSE IF flowstatus = "WAIT" THEN FC_FS_WAIT ELSE FC_FS_OVFLW
                 f1 == [c0.can_frame EXCEPT
                            ![ae_l + 1] = PCI_FC + fsb,
                            ![ae_l + 2] = blocksize % 256,
                            ![ae_l + 3] = fc_stmin_usec_to_parameter(stmin_usec)]
                 f2 == IF ae_l > 0
                       THEN [f1 EXCEPT ![1] = get_isotp_address_extension(ctx) % 256]
                       ELSE f1
                 l2 == 3 + ae_l
                 p  == pad_can_frame_len(f2, l2, ctx.can_format)
             IN  IF p.rc < 0
                 THEN [rc |-> p.rc,
                       ctx |-> [c0 EXCEPT !.can_frame = p.buf, !.can_frame_len = l2]]
                 ELSE [rc |-> p.rc,
                       ctx |-> [c0 EXCEPT !.can_frame = p.buf, !.can_frame_len = p.rc]]

-----------------------------------------------------------------------------
(* Consecutive Frame codec (c/isotp_cf.c)                                  *)
\* MAX_TX_DATALEN is UINT32_MAX - 1: an int length converted to unsigned
\* exceeds it only when it is negative.
OutOfRange(len) == len < 0

\* a counter that wraps from 15 to 1, never producing 0
next_sn_skip_zero(sn) == (sn % 15) + 1

\* sequence_num++; sequence_num &= 0x0f
next_sn(sn) == ((sn + 1) % 256) % 16

\* an abort that leaves the expected SN and the remaining length as they are
abort_transfer_none(ctx) == ctx

\* an abort that also takes over the first byte of the offending frame
abort_transfer_store_ae(ctx) ==
    [ctx EXCEPT !.sequence_num = UINT8_MAX, !.remaining_datalen = INT_MAX,
                !.address_extension =
                    IF ctx.address_extension_len > 0 THEN ctx.can_frame[1] ELSE @]

\* out of sequence: expected SN and remaining length are set to values no
\* frame can match, so every later CF fails until a transfer starts again
abort_transfer(ctx) ==
    [ctx EXCEPT !.sequence_num = UINT8_MAX, !.remaining_datalen = INT_MAX]

\* a destination one byte short of the bytes already received
cf_dest_offset_short(ctx) == ctx.total_datalen - ctx.remaining_datalen - 1

\* dp = &recv_buf_p[total_datalen - remaining_datalen]
cf_dest_offset(ctx) == ctx.total_datalen - ctx.remaining_datalen

\* a frame that is not a CF rejected as a bad message
CF_REJECTED == -EBADMSG

\* result of parse_cf for a frame that is not a CF: ignored, nothing copied
CF_IGNORED == 0

parse_cf(ctx, recv_buf_p, recv_buf_sz) ==
    LET ae_l == address_extension_len(ctx.addressing_mode)
        b    == ctx.can_frame[ae_l + 1]
        sn   == LowNibble(b)
        ret(r, c) == [rc |-> r, ctx |-> c, buf |-> recv_buf_p, oob |-> FALSE]
    IN  IF OutOfRange(recv_buf_sz) THEN ret(-ERANGE, ctx)
        ELSE IF ctx.total_datalen > recv_buf_sz THEN ret(-ENOBUFS, ctx)
        ELSE IF ae_l < 0 THEN ret(ae_l, ctx)
        ELSE IF PCI_MASK_HI(b) # PCI_CF THEN ret(CF_IGNORED, ctx)
        ELSE IF sn # ctx.sequence_num
             THEN ret(-ECONNABORTED, abort_transfer(ctx))
        ELSE LET c1 == [ctx EXCEPT !.sequence_num = next_sn(@)]
                 c2 == IF ae_l > 0
                       THEN [c1 EXCEPT !.address_extension = ctx.can_frame[1]]
                       ELSE c1
                 copy_len == Min(ctx.can_frame_len - (ae_l + 1),
                                 ctx.remaining_datalen)
             IN  IF copy_len < 0 THEN ret(-EFAULT, c2)
                 ELSE LET w == WriteBuf(recv_buf_p, cf_dest_offset(ctx),
                                        Slice(ctx.can_frame, ae_l + 1, copy_len))
                      IN  [rc |-> copy_len,
                           ctx |-> [c2 EXCEPT !.remaining_datalen = @ - copy_len],
                           buf |-> w.buf, oob |-> w.oob]

prepare_cf(ctx, send_buf_p, send_buf_len) ==
    LET ae_l == address_extension_len(ctx.addressing_mode)
    IN  IF OutOfRange(send_buf_len) THEN [rc |-> -ERANGE, ctx |-> ctx]
        ELSE IF ctx.total_datalen > send_buf_len THEN [rc |-> -EMSGSIZE, ctx |-> ctx]
        ELSE IF ae_l < 0 THEN [rc |-> ae_l, ctx |-> ctx]
        ELSE LET f0 == IF ae_l > 0
                       THEN [ZeroFrame EXCEPT ![1] = get_isotp_address_extension(ctx) % 256]
                       ELSE ZeroFrame
                 f1 == [f0 EXCEPT ![ae_l + 1] = PCI_CF + (ctx.sequence_num % 16)]
                 l1 == ae_l + 1
                 sn1 == next_sn(ctx.sequence_num)
                 copy_len == Min(can_max_datalen(ctx.can_format) - l1,
                                 ctx.remaining_datalen)
                 f2 == PutBytes(f1, l1,
                                Slice(send_buf_p,
                                      ctx.total_datalen - ctx.remaining_datalen,
                                      copy_len))
                 l2 == l1 + copy_len
                 p  == pad_can_frame_len(f2, l2, ctx.can_format)
             IN  IF p.rc < 0
                 THEN [rc |-> p.rc,
                       ctx |-> [ctx EXCEPT !.can_frame = p.buf, !.can_frame_len = l2,
                                           !.sequence_num = sn1]]
                 ELSE [rc |-> p.rc,
                       ctx |-> [ctx EXCEPT !.can_frame = p.buf, !.can_frame_len = p.rc,
                                           !.sequence_num = sn1,
                                           !.remaining_datalen = @ - copy_len]]

-----------------------------------------------------------------------------
(* First Frame codec                                                       *)
FF_DL_SHORT_MAX == 4095

\* a minimum that takes the classic CAN value for CAN FD as well
FF_DLmin_classic(ctx) == ctx.can_max_datalen - ctx.address_extension_len

\* Minimum FF_DL (ISO 15765-2:2016 table 14)
FF_DLmin(ctx) ==
    IF ctx.can_format = "CANFD_FORMAT"
    THEN ctx.can_max_datalen - ctx.address_extension_len - 1
    ELSE ctx.can_max_datalen - ctx.address_extension_len

\* big-endian 32-bit length
BE32(n) == << (n \div 16777216) % 256, (n \div 65536) % 256,
              (n \div 256) % 256, n % 256 >>

prepare_ff(ctx, send_buf_p, send_buf_len) ==
    LET ae_l == ctx.address_extension_len
    IN  IF OutOfRange(send_buf_len) \/ send_buf_len < FF_DLmin(ctx)
        THEN [rc |-> -ERANGE, ctx |-> ctx]
        ELSE LET f0  == IF ae_l > 0
                        THEN [ZeroFrame EXCEPT ![1] = get_isotp_address_extension(ctx) % 256]
                        ELSE ZeroFrame
                 hdr == IF send_buf_len <= FF_DL_SHORT_MAX
                        THEN << PCI_FF + (send_buf_len \div 256), send_buf_len % 256 >>
                        ELSE << PCI_FF, 0 >> \o BE32(send_buf_len)
                 f1  == PutBytes(f0, ae_l, hdr)
                 l1  == ae_l + Len(hdr)
                 copy_len == Min(ctx.can_max_datalen - l1, send_buf_len)
                 f2  == PutBytes(f1, l1, Slice(send_buf_p, 0, copy_len))
             IN  [rc |-> copy_len,
                  ctx |-> [ctx EXCEPT !.can_frame = f2,
                                      !.can_frame_len = l1 + copy_len,
                                      !.total_datalen = send_buf_len,
                                      !.remaining_datalen = send_buf_len - copy_len,
                                      !.sequence_num = 1]]

parse_ff(ctx, recv_buf_p, recv_buf_sz) ==
    LET ae_l == ctx.address_extension_len
        b0   == ctx.can_frame[ae_l + 1]
        b1   == ctx.can_frame[ae_l + 2]
        esc  == LowNibble(b0) = 0 /\ b1 = 0
        ff_dl == IF esc
                 THEN ctx.can_frame[ae_l + 3] * 16777216 + ctx.can_frame[ae_l + 4] * 65536
                      + ctx.can_frame[ae_l + 5] * 256 + ctx.can_frame[ae_l + 6]
                 ELSE LowNibble(b0) * 256 + b1
        hdr  == ae_l + (IF esc THEN 6 ELSE 2)
        fail(e) == [rc |-> -e, ctx |-> ctx, buf |-> recv_buf_p, oob |-> FALSE]
    IN  IF OutOfRange(recv_buf_sz) THEN fail(ERANGE)
        ELSE IF PCI_MASK_HI(b0) # PCI_FF THEN fail(EBADMSG)
        ELSE IF ff_dl < FF_DLmin(ctx) THEN fail(EBADMSG)
        ELSE IF ff_dl > recv_buf_sz THEN fail(EOVERFLOW)
        ELSE LET copy_len == Min(Max(ctx.can_frame_len - hdr, 0), ff_dl)
                 w  == WriteBuf(recv_buf_p, 0, Slice(ctx.can_frame, hdr, copy_len))
                 c1 == [ctx EXCEPT !.total_datalen = ff_dl,
                                   !.remaining_datalen = ff_dl - copy_len,
                                   !.sequence_num = 1]
                 c2 == IF ae_l > 0
                       THEN [c1 EXCEPT !.address_extension = ctx.can_frame[1]]
                       ELSE c1
             IN  [rc |-> copy_len, ctx |-> c2, buf |-> w.buf, oob |-> w.oob]

-----------------------------------------------------------------------------
(* Send engine (isotp_send.c).  s_pc is the position of the one caller of  *)
(* isotp_send: "idle" before the call, "sf_tx" / "ff_tx" / "cf_tx" blocked *)
(* in can_tx, "loop_top" at the head of the FC loop of send_ff, "fc_rx"    *)
(* blocked in can_rx, "cf_sleep" in platform_sleep_usec, "done" returned.  *)

\* the bytes handed to can_tx: can_frame[0 .. can_frame_len-1]
TxFrame(ctx) == Slice(ctx.can_frame, 0, ctx.can_frame_len)

\* can_rx copies the received bytes to the front of the scratch buffer
RxInto(ctx, frame) == [ctx EXCEPT !.can_frame = PutBytes(@, 0, frame)]

SendLocals == [fs |-> "NULL", bs |-> UINT8_MAX, stmin_usec |-> INT_MAX,
               cf_bs |-> 0, continuous |-> FALSE]

\* a return that reports success whatever happened
SendReturn_success(rc, ctx) ==
    /\ s_pc' = "done"
    /\ s_rc' = EOK
    /\ sctx' = ctx

SendReturn(rc, ctx) ==
    /\ s_pc' = "done"
    /\ s_rc' = rc
    /\ sctx' = ctx

\* isotp_send up to the first can_tx: the SF / FF decision and the builder.
SendStart ==
    /\ s_pc = "idle"
    /\ UNCHANGED <<send_buf, s_loc, rctx, recv_buf, r_pc, r_rc, r_loc,
                   s2r, r2s, now, hist>>
    /\ IF OutOfRange(Len(send_buf))
       THEN SendReturn(-ERANGE, sctx)
       ELSE IF Len(send_buf) <= sctx.can_max_datalen
       THEN LET r == prepare_sf(sctx, send_buf, Len(send_buf))
            IN  IF r.rc < 0 THEN SendReturn(r.rc, r.ctx)
                ELSE /\ sctx' = r.ctx
                     /\ s_pc' = "sf_tx"
                     /\ s_rc' = s_rc
       ELSE LET r == prepare_ff(sctx, send_buf, Len(send_buf))
            IN  IF r.rc < 0 THEN SendReturn(r.rc, r.ctx)
                ELSE /\ sctx' = r.ctx
                     /\ s_pc' = "ff_tx"
                     /\ s_rc' = s_rc

\* can_tx on success: the number of bytes handed to the transport
can_tx_result(frame) == Len(frame)

\* send_sf: can_tx of the SF; its result is the result of isotp_send.
SendSfTx ==
    /\ s_pc = "sf_tx"
    /\ s2r' = Append(s2r, TxFrame(sctx))
    /\ SendReturn(can_tx_result(TxFrame(sctx)), sctx)
    /\ hist' = [hist EXCEPT !.sf_sent = TRUE]
    /\ UNCHANGED <<send_buf, s_loc, rctx, recv_buf, r_pc, r_rc, r_loc,
                   r2s, now>>

\* a send_ff that leaves the FC.WAIT counter as it finds it
SendFfTx_keep_count ==
    /\ s_pc = "ff_tx"
    /\ s2r' = Append(s2r, TxFrame(sctx))
    /\ sctx' = timeout_start(sctx, now)
    /\ s_pc' = "loop_top"
    /\ hist' = [hist EXCEPT !.ff_sent = TRUE, !.first_fc_done = FALSE,
                            !.wait_run = 0, !.applicable = "none", !.cts_bs = -1]
    /\ UNCHANGED <<send_buf, s_rc, s_loc, rctx, recv_buf, r_pc, r_rc, r_loc,
                   r2s, now>>

\* send_ff: can_tx of the FF, reset of the FC.WAIT counter, timer start.
SendFfTx ==
    /\ s_pc = "ff_tx"
    /\ s2r' = Append(s2r, TxFrame(sctx))
    /\ sctx' = timeout_start([sctx EXCEPT !.fc_wait_count = 0], now)
    /\ s_pc' = "loop_top"
    /\ hist' = [hist EXCEPT !.ff_sent = TRUE, !.first_fc_done = FALSE,
                            !.wait_run = 0, !.applicable = "none", !.cts_bs = -1]
    /\ UNCHANGED <<send_buf, s_rc, s_loc, rctx, recv_buf, r_pc, r_rc, r_loc,
                   r2s, now>>

applicable_timeout(ctx) ==
    IF ctx.fc_wait_count = 0 THEN ctx.timeouts.n_as ELSE ctx.timeouts.n_bs

\* head of the while loop of send_ff: loop condition and timer check.
SendLoopTop ==
    /\ s_pc = "loop_top"
    /\ UNCHANGED <<send_buf, s_loc, rctx, recv_buf, r_pc, r_rc, r_loc,
                   s2r, r2s, now>>
    /\ IF sctx.remaining_datalen > 0
       THEN IF timeout_expired(sctx, applicable_timeout(sctx), now)
            THEN /\ SendReturn(-ETIMEDOUT, sctx)
                 /\ hist' = hist
            ELSE /\ s_pc' = "fc_rx"
                 /\ UNCHANGED <<sctx, s_rc>>
                 /\ hist' = [hist EXCEPT
                       !.applicable = IF sctx.fc_wait_count = 0 THEN "n_as" ELSE "n_bs",
                       !.wait_after_bs0 = @ \/ hist.cts_bs = 0,
                       !.zero_pass = @ \/ (applicable_timeout(sctx) = 0
                                           /\ timeout_elapsed(sctx, now) > 0)]
       ELSE /\ SendReturn(EOK, sctx)
            /\ hist' = hist

\* send_cfs: loop condition, then prepare_cf (to "cf_tx"), or the return to
\* send_ff: counter reset, timer restart when data remains, next iteration.
\* a block loop that looks at the remaining length only
send_cfs_continue_all(ctx, loc) == ctx.remaining_datalen > 0

\* while ((remaining_datalen > 0) && (continuous || (bs > 0)))
send_cfs_continue(ctx, loc) ==
    ctx.remaining_datalen > 0 /\ (loc.continuous \/ loc.cf_bs > 0)

SendCfsLoop(ctx, loc) ==
    IF send_cfs_continue(ctx, loc)
    THEN LET r == prepare_cf(ctx, send_buf, Len(send_buf))
         IN  IF r.rc < 0 THEN SendReturn(r.rc, r.ctx)
             ELSE /\ sctx' = r.ctx
                  /\ s_pc' = "cf_tx"
                  /\ s_rc' = s_rc
    ELSE LET c1 == [ctx EXCEPT !.fc_wait_count = 0]
         IN  /\ sctx' = IF c1.remaining_datalen > 0 THEN timeout_start(c1, now) ELSE c1
             /\ s_pc' = "loop_top"
             /\ s_rc' = s_rc

\* the STmin byte of the FC frame in the scratch buffer
FcStminByte(ctx) == ctx.can_frame[ctx.address_extension_len + 3]

\* the FC.WAIT cap of send_ff without its test for a configured cap
fc_wait_exceeded_any(ctx) == ctx.fc_wait_count > ctx.fc_wait_max

\* send_ff, case FC.WAIT: the cap applies only when it is configured (> 0)
fc_wait_exceeded(ctx) ==
    ctx.fc_wait_max > 0 /\ ctx.fc_wait_count > ctx.fc_wait_max

\* can_rx returned `frame`: parse_fc and the switch on the flow status.
SendFcRx(frame) ==
    /\ s_pc = "fc_rx"
    /\ UNCHANGED <<send_buf, rctx, recv_buf, r_pc, r_rc, r_loc, s2r, now>>
    /\ LET c0 == RxInto(sctx, frame)
           r  == parse_fc(c0, s_loc.fs, s_loc.bs, s_loc.stmin_usec)
           loc == [s_loc EXCEPT !.fs = r.fs, !.bs = r.bs, !.stmin_usec = r.stmin_usec]
       IN  IF r.rc < 0
           THEN /\ SendReturn(r.rc, c0)
                /\ s_loc' = loc
                /\ hist' = hist
           ELSE IF r.fs = "CTS"
           THEN LET loc2 == [loc EXCEPT !.continuous = (r.bs = 0), !.cf_bs = r.bs]
                IN  /\ s_loc' = loc2
                    /\ hist' = [hist EXCEPT !.first_fc_done = TRUE, !.wait_run = 0,
                                            !.cts_bs = r.bs, !.cf_in_block = 0,
                                            !.fc_stmin = FcStminByte(c0)]
                    /\ SendCfsLoop(c0, loc2)
           ELSE IF r.fs = "WAIT"
           THEN LET c1 == [c0 EXCEPT !.fc_wait_count = (@ + 1) % 256]
                IN  /\ s_loc' = loc
                    /\ hist' = [hist EXCEPT !.first_fc_done = TRUE,
                                            !.wait_run = @ + 1,
                                            !.fc_stmin = FcStminByte(c0)]
                    /\ IF fc_wait_exceeded(c1)
                       THEN SendReturn(-ECONNABORTED, c1)
                       ELSE /\ sctx' = timeout_start(c1, now)
                            /\ s_pc' = "loop_top"
                            /\ s_rc' = s_rc
           ELSE IF r.fs = "OVFLW"
           THEN /\ s_loc' = loc
                /\ hist' = [hist EXCEPT !.first_fc_done = TRUE, !.wait_run = 0,
                                        !.fc_stmin = FcStminByte(c0)]
                /\ SendReturn(-ECONNABORTED, c0)
           ELSE /\ s_loc' = loc
                /\ hist' = hist
                /\ SendReturn(-EBADMSG, c0)

\* can_rx failed in send_ff: the transport's error is returned.
SendFcRxFail(err) ==
    /\ s_pc = "fc_rx"
    /\ SendReturn(err, sctx)
    /\ hist' = [hist EXCEPT !.s_err = err]
    /\ UNCHANGED <<send_buf, s_loc, rctx, recv_buf, r_pc, r_rc, r_loc,
                   s2r, r2s, now>>

\* can_tx failed in send_sf, send_ff or send_cfs: its error is returned.
SendTxFail(err) ==
    /\ s_pc \in {"sf_tx", "ff_tx", "cf_tx"}
    /\ SendReturn(err, sctx)
    /\ hist' = [hist EXCEPT !.s_err = err]
    /\ UNCHANGED <<send_buf, s_loc, rctx, recv_buf, r_pc, r_rc, r_loc,
                   s2r, r2s, now>>

\* send_cfs: can_tx of the CF, block counter decrement, into the sleep.
SendCfTx ==
    /\ s_pc = "cf_tx"
    /\ s2r' = Append(s2r, TxFrame(sctx))
    /\ s_loc' = [s_loc EXCEPT !.cf_bs = IF @ > 0 THEN @ - 1 ELSE @]
    /\ s_pc' = "cf_sleep"
    /\ hist' = [hist EXCEPT
          !.sns = Append(@, LowNibble(sctx.can_frame[sctx.address_extension_len + 1])),
          !.cf_in_block = @ + 1,
          !.cf_after_late = @ \/ hist.late]
    /\ UNCHANGED <<sctx, send_buf, s_rc, rctx, recv_buf, r_pc, r_rc, r_loc,
                   r2s, now>>

\* a send_cfs that does not wait between frames
sleep_usec_none(loc) == 0

\* the argument of platform_sleep_usec in send_cfs: the stmin_usec that
\* send_ff got from parse_fc
sleep_usec(loc) == loc.stmin_usec

\* platform_sleep_usec returned 0: next iteration of send_cfs.
SendCfSleep ==
    /\ s_pc = "cf_sleep"
    /\ SendCfsLoop(sctx, s_loc)
    /\ hist' = [hist EXCEPT !.slept = Append(@, <<sleep_usec(s_loc), hist.fc_stmin>>)]
    /\ UNCHANGED <<send_buf, s_loc, rctx, recv_buf, r_pc, r_rc, r_loc,
                   s2r, r2s, now>>

-----------------------------------------------------------------------------
(* Receive engine (isotp_recv.c).  r_pc: "idle" before the call,           *)
(* "first_rx" blocked in the first can_rx, "fc_tx" blocked in can_tx of an *)
(* FC, "cf_loop" at the head of the inner loop of recv_cfs, "cf_rx"        *)
(* blocked in can_rx for a CF, "done" returned.                            *)

\* a return that reports every error as a timeout
RecvReturn_timeout(rc, ctx) ==
    /\ r_pc' = "done"
    /\ r_rc' = IF rc < 0 THEN -ETIMEDOUT ELSE rc
    /\ rctx' = ctx

RecvReturn(rc, ctx) ==
    /\ r_pc' = "done"
    /\ r_rc' = rc
    /\ rctx' = ctx

\* tail of isotp_recv: an error is returned as is, success returns the
\* total length and clears the transfer state.
RecvFinish(rc, ctx) ==
    IF rc < 0 THEN RecvReturn(rc, ctx)
    ELSE RecvReturn(ctx.total_datalen,
                    [ctx EXCEPT !.total_datalen = 0, !.remaining_datalen = 0])

\* isotp_recv entry: argument checks, transfer state cleared.
RecvStart ==
    /\ r_pc = "idle"
    /\ IF OutOfRange(Len(recv_buf))
       THEN RecvReturn(-ERANGE, rctx)
       ELSE /\ rctx' = [rctx EXCEPT !.total_datalen = 0, !.remaining_datalen = 0]
            /\ r_pc' = "first_rx"
            /\ r_rc' = r_rc
    /\ UNCHANGED <<sctx, send_buf, s_pc, s_rc, s_loc, recv_buf, r_loc,
                   s2r, r2s, now, hist>>

\* outer loop of recv_cfs: prepare the next FC.CTS, or return.
RecvCfsOuter(ctx, rc) ==
    IF ctx.remaining_datalen > 0
    THEN LET r == prepare_fc(ctx, "CTS", r_loc.blocksize, r_loc.stmin_usec)
         IN  IF r.rc < 0 THEN RecvFinish(r.rc, r.ctx)
             ELSE /\ rctx' = r.ctx
                  /\ r_pc' = "fc_tx"
                  /\ r_rc' = r_rc
    ELSE RecvFinish(rc, ctx)

\* the first can_rx returned `frame`: dispatch on the PCI.
RecvFirstRx(frame) ==
    /\ r_pc = "first_rx"
    /\ UNCHANGED <<sctx, send_buf, s_pc, s_rc, s_loc, r_loc, r2s, now>>
    /\ LET c0  == [RxInto(rctx, frame) EXCEPT !.can_frame_len = Len(frame)]
           pci == PCI_MASK_HI(c0.can_frame[c0.address_extension_len + 1])
           r   == IF pci = PCI_SF THEN parse_sf(c0, recv_buf, Len(recv_buf))
                  ELSE IF pci = PCI_FF THEN parse_ff(c0, recv_buf, Len(recv_buf))
                  ELSE [rc |-> -ENOMSG, ctx |-> c0, buf |-> recv_buf, oob |-> FALSE]
       IN  /\ recv_buf' = r.buf
           /\ hist' = [hist EXCEPT !.first = frame, !.oob = @ \/ r.oob]
           /\ IF pci = PCI_SF THEN RecvFinish(r.rc, r.ctx)
              ELSE IF pci = PCI_FF
              THEN IF r.rc < 0 THEN RecvReturn(r.rc, r.ctx)
                   ELSE RecvCfsOuter(timeout_start(r.ctx, now), EOK)
              ELSE RecvReturn(-ENOMSG, c0)

\* can_rx failed: the transport's error is returned.
RecvRxFail(err) ==
    /\ r_pc \in {"first_rx", "cf_rx"}
    /\ RecvReturn(err, rctx)
    /\ hist' = [hist EXCEPT !.r_err = err]
    /\ UNCHANGED <<sctx, send_buf, s_pc, s_rc, s_loc, recv_buf, r_loc,
                   s2r, r2s, now>>

\* can_tx of the FC failed in recv_cfs: its error is returned.
RecvTxFail(err) ==
    /\ r_pc = "fc_tx"
    /\ RecvReturn(err, rctx)
    /\ hist' = [hist EXCEPT !.r_err = err]
    /\ UNCHANGED <<sctx, send_buf, s_pc, s_rc, s_loc, recv_buf, r_loc,
                   s2r, r2s, now>>

\* recv_cfs: can_tx of the FC, timer restart, block counter reload.
RecvFcTx ==
    /\ r_pc = "fc_tx"
    /\ r2s' = Append(r2s, TxFrame(rctx))
    /\ rctx' = timeout_start(rctx, now)
    /\ r_loc' = [r_loc EXCEPT !.bs = r_loc.blocksize]
    /\ r_pc' = "cf_loop"
    /\ hist' = [hist EXCEPT
          !.fc_sent = @ + 1,
          !.ovflw_sent = IF rctx.can_frame[rctx.address_extension_len + 1]
                              = PCI_FC + FC_FS_OVFLW THEN @ + 1 ELSE @,
          !.cf_rx_since_fc = 0,
          !.cf_acc = 0]
    /\ UNCHANGED <<sctx, send_buf, s_pc, s_rc, s_loc, recv_buf, r_rc,
                   s2r, now>>

\* head of the inner loop of recv_cfs: loop condition and N_Cr check.
RecvCfLoop ==
    /\ r_pc = "cf_loop"
    /\ UNCHANGED <<sctx, send_buf, s_pc, s_rc, s_loc, recv_buf, r_loc,
                   s2r, r2s, now, hist>>
    /\ IF rctx.remaining_datalen > 0 /\ (r_loc.blocksize = 0 \/ r_loc.bs > 0)
       THEN IF timeout_expired(rctx, rctx.timeouts.n_cr, now)
            THEN RecvReturn(-ETIMEDOUT, rctx)
            ELSE /\ r_pc' = "cf_rx"
                 /\ UNCHANGED <<rctx, r_rc>>
       ELSE RecvCfsOuter(rctx, r_loc.rc)

\* can_rx returned `frame` inside the block: parse_cf, timer restart,
\* block counter decrement.
RecvCfRx(frame) ==
    /\ r_pc = "cf_rx"
    /\ UNCHANGED <<sctx, send_buf, s_pc, s_rc, s_loc, r2s, now>>
    /\ LET c0 == [RxInto(rctx, frame) EXCEPT !.can_frame_len = Len(frame)]
           r  == parse_cf(c0, recv_buf, Len(recv_buf))
       IN  /\ recv_buf' = r.buf
           /\ hist' = [hist EXCEPT
                 !.cf_rx_since_fc = @ + 1,
                 !.cf_acc = IF r.rc >= 0
                               /\ PCI_MASK_HI(c0.can_frame[rctx.address_extension_len + 1]) = PCI_CF
                            THEN @ + 1 ELSE @,
                 !.late_cf = @ \/ (/\ r.rc >= 0
                                   /\ r.buf # recv_buf
                                   /\ timeout_elapsed(rctx, now) > rctx.timeouts.n_cr),
                 !.oob = @ \/ r.oob]
           /\ IF r.rc < 0
              THEN /\ RecvReturn(r.rc, r.ctx)
                   /\ r_loc' = [r_loc EXCEPT !.rc = r.rc]
              ELSE /\ rctx' = timeout_start(r.ctx, now)
                   /\ r_loc' = [r_loc EXCEPT !.rc = r.rc,
                                             !.bs = IF @ > 0 THEN @ - 1 ELSE @]
                   /\ r_pc' = "cf_loop"
                   /\ r_rc' = r_rc

-----------------------------------------------------------------------------
(* Transport, clock and peers                                              *)

\* delivery of the oldest frame in flight to the engine blocked in can_rx
SendCanRx ==
    /\ r2s # << >>
    /\ SendFcRx(Head(r2s))
    /\ r2s' = Tail(r2s)

RecvCanRxFirst ==
    /\ s2r # << >>
    /\ RecvFirstRx(Head(s2r))
    /\ s2r' = Tail(s2r)

RecvCanRxCf ==
    /\ s2r # << >>
    /\ RecvCfRx(Head(s2r))
    /\ s2r' = Tail(s2r)

\* errors a transport reports from can_rx (its own per-call timeout, or a
\* failure of the platform)
TransportErrors == {-ETIMEDOUT, -EFAULT}

SendCanRxFail == \E err \in TransportErrors : SendFcRxFail(err)

RecvCanRxFail == \E err \in TransportErrors : RecvRxFail(err)

SendCanTxFail == \E err \in TransportErrors : SendTxFail(err)

RecvCanTxFail == \E err \in TransportErrors : RecvTxFail(err)

MaxTime == 4
MaxPeerFrames == 5
MaxPeerFcs == 258

\* the bound of the FC wait has been exceeded whichever of N_As / N_Bs applies
FcWaitOverdue(ctx, t) ==
    timeout_elapsed(ctx, t) > Max(ctx.timeouts.n_as, ctx.timeouts.n_bs)

\* one unit of time passes
Tick ==
    /\ now < MaxTime
    /\ now' = now + 1
    /\ hist' = [hist EXCEPT
          !.late = @ \/ (s_pc = "fc_rx" /\ r2s = << >> /\ FcWaitOverdue(sctx, now'))]
    /\ UNCHANGED <<sctx, send_buf, s_pc, s_rc, s_loc,
                   rctx, recv_buf, r_pc, r_rc, r_loc, s2r, r2s>>

PadTo(frame, len) ==
    [i \in 1..Max(len, Len(frame)) |-> IF i <= Len(frame) THEN frame[i] ELSE CAN_PADDING]

AePrefix(ctx, ae) == IF ctx.address_extension_len > 0 THEN <<ae>> ELSE << >>

PeerAEs == {93}
PeerBs == {0, 1, 2}

\* FC frames of a peer: <<flow status nibble, block size>>
PeerFcs == { <<FC_FS_CTS, bs>> : bs \in PeerBs }
           \cup { <<FC_FS_WAIT, 0>>, <<FC_FS_OVFLW, 0>>, <<FC_FS_OVFLW + 1, 0>> }

\* a peer of the sender answers the pending FC wait with some FC frame
\* (runs of FC.WAIT are cut at the peer's budget)
PeerFc ==
    /\ s_pc = "fc_rx"
    /\ r2s = << >>
    /\ hist.wait_run < hist.peer_budget
    /\ \E fc \in PeerFcs, ae \in PeerAEs :
          r2s' = << PadTo(AePrefix(sctx, ae) \o <<PCI_FC + fc[1], fc[2], 0>>,
                          CAN_MAX_DATALEN) >>
    /\ UNCHANGED <<sctx, send_buf, s_pc, s_rc, s_loc,
                   rctx, recv_buf, r_pc, r_rc, r_loc, s2r, now, hist>>

\* a peer of the sender answers with an FC frame cut short of its three
\* bytes: the PCI byte alone, or the PCI and the block size
PeerShortFc ==
    /\ s_pc = "fc_rx"
    /\ r2s = << >>
    /\ hist.wait_run < hist.peer_budget
    /\ \E fc \in PeerFcs, ae \in PeerAEs, k \in 1..2 :
          r2s' = << AePrefix(sctx, ae) \o SubSeq(<<PCI_FC + fc[1], fc[2]>>, 1, k) >>
    /\ UNCHANGED <<sctx, send_buf, s_pc, s_rc, s_loc,
                   rctx, recv_buf, r_pc, r_rc, r_loc, s2r, now, hist>>

PeerData(k) == [i \in 1..k |-> 159 + i]
PeerSfLens == {3, 7}
PeerFfLens == {12, 20, 30}
PeerSns == {0, 1, 2, 3}

\* the frames a peer of the receiver may put on the bus
PeerFrames(ctx) ==
    LET ae == AePrefix(ctx, CHOOSE a \in PeerAEs : TRUE)
        room == CAN_MAX_DATALEN - ctx.address_extension_len
    IN  { PadTo(ae \o <<PCI_SF + n>> \o PeerData(n), CAN_MAX_DATALEN) : n \in PeerSfLens }
        \cup { ae \o <<PCI_FF + (n \div 256), n % 256>> \o PeerData(room - 2) : n \in PeerFfLens }
        \cup { ae \o <<PCI_CF + sn>> \o PeerData(room - 1) : sn \in PeerSns }
        \cup { PadTo(ae \o <<PCI_FC, 0, 0>>, CAN_MAX_DATALEN) }

PeerFrame ==
    /\ r_pc \in {"first_rx", "cf_rx"}
    /\ s2r = << >>
    /\ hist.peer_frames < hist.peer_budget
    /\ \E f \in PeerFrames(rctx) : s2r' = <<f>>
    /\ hist' = [hist EXCEPT !.peer_frames = @ + 1]
    /\ UNCHANGED <<sctx, send_buf, s_pc, s_rc, s_loc,
                   rctx, recv_buf, r_pc, r_rc, r_loc, r2s, now>>

\* Frames a peer can deliver on CAN FD: a short-form SF, escape-form SFs
\* in frames of 12, 24 and 48 bytes, an FF whose first bytes fill the
\* frame, CFs and an FC.
PeerFdSfDls == {9, 20, 40}
PeerFdFfLens == {100}

PeerFdFrames(ctx) ==
    LET ae == AePrefix(ctx, CHOOSE a \in PeerAEs : TRUE)
        room == CANFD_MAX_DATALEN - ctx.address_extension_len
    IN  { PadTo(ae \o <<PCI_SF + n>> \o PeerData(n), CAN_MAX_DATALEN) : n \in {3} }
        \cup { PadTo(ae \o <<PCI_SF, n>> \o PeerData(n),
                     can_dlc_to_datalen(
                         can_datalen_to_dlc(Len(ae) + 2 + n, "CANFD_FORMAT"),
                         "CANFD_FORMAT")) : n \in PeerFdSfDls }
        \cup { ae \o <<PCI_FF + (n \div 256), n % 256>> \o PeerData(room - 2) : n \in PeerFdFfLens }
        \cup { ae \o <<PCI_CF + sn>> \o PeerData(room - 1) : sn \in {1, 2} }
        \cup { PadTo(ae \o <<PCI_FC, 0, 0>>, CAN_MAX_DATALEN) }

PeerFdFrame ==
    /\ r_pc \in {"first_rx", "cf_rx"}
    /\ s2r = << >>
    /\ hist.peer_frames < hist.peer_budget
    /\ \E f \in PeerFdFrames(rctx) : s2r' = <<f>>
    /\ hist' = [hist EXCEPT !.peer_frames = @ + 1]
    /\ UNCHANGED <<sctx, send_buf, s_pc, s_rc, s_loc,
                   rctx, recv_buf, r_pc, r_rc, r_loc, r2s, now>>

\* PCI nibbles that no frame type uses
OtherPcis == 4..15

\* what else may arrive, from another node: a frame whose PCI nibble stands
\* for no frame type, or a frame too short to hold a PCI byte
PeerOtherFrames(ctx) ==
    LET ae == AePrefix(ctx, (CHOOSE a \in PeerAEs : TRUE) + 1)
    IN  { PadTo(ae \o <<16 * n + 1>>, CAN_MAX_DATALEN) : n \in OtherPcis }
        \cup { ae }
        \cup { ae \o <<PCI_CF + sn>> : sn \in 1..2 }

PeerOtherFrame ==
    /\ r_pc \in {"first_rx", "cf_rx"}
    /\ s2r = << >>
    /\ hist.peer_frames < hist.peer_budget
    /\ \E f \in PeerOtherFrames(rctx) : s2r' = <<f>>
    /\ hist' = [hist EXCEPT !.peer_frames = @ + 1]
    /\ UNCHANGED <<sctx, send_buf, s_pc, s_rc, s_loc,
                   rctx, recv_buf, r_pc, r_rc, r_loc, r2s, now>>

-----------------------------------------------------------------------------
(* Direct use of the CF / FF parsers on one context (no engine)            *)
MaxCalls == 4

CodecFfLens == {12, 20}
CodecSns == 0..15

CodecFrames(ctx) ==
    LET ae == AePrefix(ctx, CHOOSE a \in PeerAEs : TRUE)
        room == CAN_MAX_DATALEN - ctx.address_extension_len
    IN  { ae \o <<PCI_FF + (n \div 256), n % 256>> \o PeerData(room - 2) : n \in CodecFfLens }
        \cup { ae \o <<PCI_CF + sn>> \o PeerData(room - 1) : sn \in CodecSns }
        \cup { PadTo(ae \o <<PCI_SF + 3>> \o PeerData(3), CAN_MAX_DATALEN),
               PadTo(ae \o <<PCI_FC + 1, 0, 0>>, CAN_MAX_DATALEN) }

\* a frame is stored in the scratch buffer and parse_cf is called on it
CodecParseCf ==
    /\ r_pc = "codec"
    /\ hist.calls < MaxCalls
    /\ \E f \in CodecFrames(rctx) :
          LET c0 == [RxInto(rctx, f) EXCEPT !.can_frame_len = Len(f)]
              r  == parse_cf(c0, recv_buf, Len(recv_buf))
          IN  /\ rctx' = r.ctx
              /\ recv_buf' = r.buf
              /\ r_rc' = r.rc
              /\ hist' = [hist EXCEPT
                    !.calls = @ + 1, !.op = "parse_cf", !.first = f,
                    !.oob = @ \/ r.oob,
                    !.cf_while_poisoned =
                        IF hist.poisoned
                           /\ PCI_MASK_HI(f[rctx.address_extension_len + 1]) = PCI_CF
                        THEN @ + 1 ELSE @,
                    !.poisoned = @ \/ (r.rc = -ECONNABORTED)]
    /\ UNCHANGED <<sctx, send_buf, s_pc, s_rc, s_loc, r_pc, r_loc, s2r, r2s, now>>

\* a frame is stored in the scratch buffer and parse_ff is called on it
CodecParseFf ==
    /\ r_pc = "codec"
    /\ hist.calls < MaxCalls
    /\ \E f \in CodecFrames(rctx) :
          LET c0 == [RxInto(rctx, f) EXCEPT !.can_frame_len = Len(f)]
              r  == parse_ff(c0, recv_buf, Len(recv_buf))
          IN  /\ rctx' = r.ctx
              /\ recv_buf' = r.buf
              /\ r_rc' = r.rc
              /\ hist' = [hist EXCEPT
                    !.calls = @ + 1, !.op = "parse_ff", !.first = f,
                    !.oob = @ \/ r.oob,
                    !.poisoned = @ /\ (r.rc < 0)]
    /\ UNCHANGED <<sctx, send_buf, s_pc, s_rc, s_loc, r_pc, r_loc, s2r, r2s, now>>

\* FC frames with every value of the low nibble of the PCI byte
CodecFcFrames(ctx) ==
    LET ae == AePrefix(ctx, CHOOSE a \in PeerAEs : TRUE)
    IN  { PadTo(ae \o <<PCI_FC + n, bs, 0>>, CAN_MAX_DATALEN) :
              n \in 0..15, bs \in PeerBs }

\* a frame is stored in the scratch buffer and parse_fc is called on it
CodecParseFc ==
    /\ r_pc = "codec"
    /\ hist.calls < MaxCalls
    /\ \E f \in CodecFcFrames(rctx) :
          LET c0 == [RxInto(rctx, f) EXCEPT !.can_frame_len = Len(f)]
              r  == parse_fc(c0, s_loc.fs, s_loc.bs, s_loc.stmin_usec)
          IN  /\ rctx' = c0
              /\ r_rc' = r.rc
              /\ s_loc' = [s_loc EXCEPT !.fs = r.fs, !.bs = r.bs,
                                        !.stmin_usec = r.stmin_usec]
              /\ hist' = [hist EXCEPT !.calls = @ + 1, !.op = "parse_fc",
                                      !.first = f]
    /\ UNCHANGED <<sctx, send_buf, s_pc, s_rc, recv_buf, r_pc, r_loc, s2r, r2s, now>>

-----------------------------------------------------------------------------
(* Direct use of the SF codec and of parse_ff, one call on a new context   *)

\* the payload in send_buf is built into an SF in the sending context
CodecPrepareSf ==
    /\ s_pc = "codec"
    /\ r_pc = "codec"
    /\ LET r == prepare_sf(sctx, send_buf, Len(send_buf))
       IN  /\ sctx' = r.ctx
           /\ s_rc' = r.rc
    /\ s_pc' = "built"
    /\ UNCHANGED <<send_buf, s_loc, rctx, recv_buf, r_pc, r_rc, r_loc,
                   s2r, r2s, now, hist>>

\* parse_sf in the receiving context on the frame `f` of length Len(f)
ParseSfCall(f) ==
    LET c0 == [RxInto(rctx, f) EXCEPT !.can_frame_len = Len(f)]
        r  == parse_sf(c0, recv_buf, Len(recv_buf))
    IN  /\ rctx' = r.ctx
        /\ recv_buf' = r.buf
        /\ r_rc' = r.rc
        /\ r_pc' = "parsed"
        /\ hist' = [hist EXCEPT !.calls = @ + 1, !.op = "parse_sf", !.first = f,
                                !.oob = @ \/ r.oob]

\* the frame prepare_sf has built (can_frame, can_frame_len) is parsed
CodecParseBuiltSf ==
    /\ s_pc = "built"
    /\ s_rc >= 0
    /\ r_pc = "codec"
    /\ ParseSfCall(TxFrame(sctx))
    /\ UNCHANGED <<sctx, send_buf, s_pc, s_rc, s_loc, r_loc, s2r, r2s, now>>

\* frame lengths and SF_DL bytes of the escape-form frames tried
EscFrameLens == {12, 24, CANFD_MAX_DATALEN}
EscDls == {0, 6, 7, 8, 9, 10, 11, 21, 22, 40, 60, 61, 62, 63, 200}

\* Single Frames from a peer: short form with every low nibble, escape form
\* with SF_DL bytes below, at and above what the frame holds
CodecSfFrames(ctx) ==
    LET ae == AePrefix(ctx, CHOOSE a \in PeerAEs : TRUE)
        ael == ctx.address_extension_len
    IN  { PadTo(ae \o <<PCI_SF + n>> \o PeerData(Min(n, CAN_MAX_DATALEN - ael - 1)),
                CAN_MAX_DATALEN) : n \in 0..15 }
        \cup { PadTo(ae \o <<PCI_SF, d>> \o PeerData(Min(d, len - ael - 2)), len) :
                   len \in EscFrameLens, d \in EscDls }

CodecParseSf ==
    /\ s_pc = "codec"
    /\ r_pc = "codec"
    /\ \E f \in CodecSfFrames(rctx) : ParseSfCall(f)
    /\ UNCHANGED <<sctx, send_buf, s_pc, s_rc, s_loc, r_loc, s2r, r2s, now>>

\* First Frames from a peer, in both encodings, with FF_DL 1 and around the
\* number of bytes a frame holds
CodecFfDls(ctx) ==
    {1} \cup (ctx.can_max_datalen - ctx.address_extension_len - 3)
                 ..(ctx.can_max_datalen - ctx.address_extension_len + 1)

CodecFfFrames(ctx) ==
    LET ae == AePrefix(ctx, CHOOSE a \in PeerAEs : TRUE)
        room == ctx.can_max_datalen - ctx.address_extension_len
    IN  { ae \o <<PCI_FF + (n \div 256), n % 256>> \o PeerData(room - 2) :
              n \in CodecFfDls(ctx) }
        \cup { ae \o <<PCI_FF, 0>> \o BE32(n) \o PeerData(room - 6) :
                   n \in CodecFfDls(ctx) }

CodecParseFirstFf ==
    /\ s_pc = "codec"
    /\ r_pc = "codec"
    /\ \E f \in CodecFfFrames(rctx) :
          LET c0 == [RxInto(rctx, f) EXCEPT !.can_frame_len = Len(f)]
              r  == parse_ff(c0, recv_buf, Len(recv_buf))
          IN  /\ rctx' = r.ctx
              /\ recv_buf' = r.buf
              /\ r_rc' = r.rc
              /\ r_pc' = "parsed"
              /\ hist' = [hist EXCEPT !.calls = @ + 1, !.op = "parse_ff",
                                      !.first = f, !.oob = @ \/ r.oob]
    /\ UNCHANGED <<sctx, send_buf, s_pc, s_rc, s_loc, r_loc, s2r, r2s, now>>

-----------------------------------------------------------------------------
(* Initial states and specifications                                       *)
Formats == {"CAN_FORMAT", "CANFD_FORMAT"}
Modes == {"NORMAL", "EXTENDED"}
Lengths == {0, 1, 6, 7, 8, 9, 20, 61, 62, 63, 70, 125}
CapSlack == {0, 3}
BlockSizes == {0, 1, 3, 16}
STmins == {0, 500, 1000}
WaitCaps == {0, 1, 2, 255}
TimedWaitCaps == {0, 1, 2}
SenderAEs == {174}

Payload(n) == [i \in 1..n |-> (i * 3 + 1) % 256]

EmptyBuf(cap) == [i \in 1..cap |-> 0]

ShortTimeouts == [n_as |-> 2, n_ar |-> 2, n_bs |-> 3, n_cr |-> 2]

hist0 ==
    [ff_sent |-> FALSE, first_fc_done |-> FALSE, wait_run |-> 0,
     applicable |-> "none", wait_after_bs0 |-> FALSE, cts_bs |-> -1,
     cf_in_block |-> 0, sns |-> << >>, late |-> FALSE, cf_after_late |-> FALSE,
     first |-> << >>, fc_sent |-> 0, ovflw_sent |-> 0, cf_rx_since_fc |-> 0,
     oob |-> FALSE, peer_frames |-> 0, peer_budget |-> 0, calls |-> 0,
     op |-> "none", poisoned |-> FALSE, cf_while_poisoned |-> 0,
     cf_acc |-> 0, sf_sent |-> FALSE, s_err |-> 0, r_err |-> 0,
     left_behind |-> FALSE, ae_set |-> -1, fc_stmin |-> -1, slept |-> << >>,
     stmin_chain |-> << >>, zero_pass |-> FALSE, late_cf |-> FALSE]

RecvLocals(blocksize, stmin_usec) ==
    [blocksize |-> blocksize, stmin_usec |-> stmin_usec, bs |-> 0, rc |-> EOK]

InitWith(sc, payload, spc, rc_, cap, rl, rpc, budget) ==
    /\ sctx = sc
    /\ send_buf = payload
    /\ s_pc = spc
    /\ s_rc = 0
    /\ s_loc = SendLocals
    /\ rctx = rc_
    /\ recv_buf = EmptyBuf(cap)
    /\ r_pc = rpc
    /\ r_rc = 0
    /\ r_loc = rl
    /\ s2r = << >>
    /\ r2s = << >>
    /\ now = 0
    /\ hist = [hist0 EXCEPT !.peer_budget = budget]

\* Both engines, same format and addressing mode, over a lossless in-order
\* transport; the receive buffer holds at least the message.
Init ==
    \E f \in Formats, m \in Modes, n \in Lengths, slack \in CapSlack,
       bs \in BlockSizes, st \in STmins, ae \in SenderAEs :
        InitWith(set_isotp_address_extension(
                     isotp_ctx_init(f, m, 0, ISOTP_DEFAULT_TIMEOUTS), ae),
                 Payload(n), "idle",
                 isotp_ctx_init(f, m, 0, ISOTP_DEFAULT_TIMEOUTS),
                 n + slack, RecvLocals(bs, st), "idle", 0)

Next ==
    \/ SendStart
    \/ SendSfTx
    \/ SendFfTx
    \/ SendLoopTop
    \/ SendCanRx
    \/ SendCfTx
    \/ SendCfSleep
    \/ RecvStart
    \/ RecvCanRxFirst
    \/ RecvFcTx
    \/ RecvCfLoop
    \/ RecvCanRxCf

Spec == Init /\ [][Next]_vars

\* Both engines over a transport whose can_tx and can_rx may fail.
NextFail ==
    \/ SendStart
    \/ SendSfTx
    \/ SendFfTx
    \/ SendLoopTop
    \/ SendCanRx
    \/ SendCfTx
    \/ SendCfSleep
    \/ RecvStart
    \/ RecvCanRxFirst
    \/ RecvFcTx
    \/ RecvCfLoop
    \/ RecvCanRxCf
    \/ SendCanTxFail
    \/ SendCanRxFail
    \/ RecvCanTxFail
    \/ RecvCanRxFail

SpecFail == Init /\ [][NextFail]_vars

\* Both engines on contexts that an earlier call has used: the transfer
\* state is what that call left behind (a fresh context; an isotp_recv
\* aborted by an out-of-sequence CF; an isotp_send aborted by the FC.WAIT
\* cap; a completed isotp_send), and the clock has advanced.
FreshState ==
    [sequence_num |-> 0, total_datalen |-> 0, remaining_datalen |-> 0,
     fc_wait_count |-> 0, timer_start_us |-> 0]

LeftBehind ==
    { FreshState,
      [sequence_num |-> UINT8_MAX, total_datalen |-> 12,
       remaining_datalen |-> INT_MAX, fc_wait_count |-> 0, timer_start_us |-> 1],
      [sequence_num |-> 1, total_datalen |-> 20, remaining_datalen |-> 14,
       fc_wait_count |-> 3, timer_start_us |-> 0],
      [sequence_num |-> 3, total_datalen |-> 20, remaining_datalen |-> 0,
       fc_wait_count |-> 0, timer_start_us |-> 2] }

WithLeftBehind(ctx, st) ==
    [ctx EXCEPT !.sequence_num = st.sequence_num,
                !.total_datalen = st.total_datalen,
                !.remaining_datalen = st.remaining_datalen,
                !.fc_wait_count = st.fc_wait_count,
                !.timer_start_us = st.timer_start_us]

AgainLengths == {5, 8, 20}
AgainBlockSizes == {0, 2}
AgainTimes == {3}
AgainWaitCaps == {2}

InitAgain ==
    \E m \in Modes, n \in AgainLengths, bs \in AgainBlockSizes,
       ls \in LeftBehind, lr \in LeftBehind, t \in AgainTimes,
       w \in AgainWaitCaps, ae \in SenderAEs :
        /\ sctx = WithLeftBehind(
                     set_isotp_address_extension(
                         isotp_ctx_init("CAN_FORMAT", m, w, ShortTimeouts), ae), ls)
        /\ send_buf = Payload(n)
        /\ s_pc = "idle"
        /\ s_rc = 0
        /\ s_loc = SendLocals
        /\ rctx = WithLeftBehind(isotp_ctx_init("CAN_FORMAT", m, w, ShortTimeouts), lr)
        /\ recv_buf = EmptyBuf(n)
        /\ r_pc = "idle"
        /\ r_rc = 0
        /\ r_loc = RecvLocals(bs, 0)
        /\ s2r = << >>
        /\ r2s = << >>
        /\ now = t
        /\ hist = [hist0 EXCEPT
                     !.left_behind = (ls # FreshState /\ lr # FreshState)]

NextAgain ==
    \/ SendStart
    \/ SendSfTx
    \/ SendFfTx
    \/ SendLoopTop
    \/ SendCanRx
    \/ SendCfTx
    \/ SendCfSleep
    \/ RecvStart
    \/ RecvCanRxFirst
    \/ RecvFcTx
    \/ RecvCfLoop
    \/ RecvCanRxCf

SpecAgain == InitAgain /\ [][NextAgain]_vars

\* The sender alone against an arbitrary peer, with a clock.
SendLengths == {10, 20}

InitSender(caps, timeouts, budget) ==
    \E m \in Modes, n \in SendLengths, w \in caps, ae \in SenderAEs :
        InitWith(set_isotp_address_extension(
                     isotp_ctx_init("CAN_FORMAT", m, w, timeouts), ae),
                 Payload(n), "idle",
                 isotp_ctx_init("CAN_FORMAT", m, 0, timeouts),
                 0, RecvLocals(0, 0), "off", budget)

InitSend == InitSender(TimedWaitCaps, ShortTimeouts, MaxPeerFrames)

NextSend ==
    \/ SendStart
    \/ SendFfTx
    \/ SendLoopTop
    \/ SendCanRx
    \/ SendCanRxFail
    \/ SendCfTx
    \/ SendCfSleep
    \/ PeerFc
    \/ Tick

SpecSend == InitSend /\ [][NextSend]_vars

\* The sender alone against a peer that answers at once, as often as it
\* likes (no clock): long runs of FC.WAIT.
InitWait == InitSender(WaitCaps, ISOTP_DEFAULT_TIMEOUTS, MaxPeerFcs)

NextWait ==
    \/ SendStart
    \/ SendFfTx
    \/ SendLoopTop
    \/ SendCanRx
    \/ SendCfTx
    \/ SendCfSleep
    \/ PeerFc

SpecWait == InitWait /\ [][NextWait]_vars

\* The sender against a peer and a clock, with protocol timers whose bound
\* is configured as 0, and a transport that does not fail.
ZeroTimeouts ==
    { [ShortTimeouts EXCEPT !.n_as = a, !.n_bs = b] :
          a \in {0, ShortTimeouts.n_as}, b \in {0, ShortTimeouts.n_bs} }
        \ {ShortTimeouts}

InitZero == \E z \in ZeroTimeouts : InitSender({1}, z, MaxPeerFrames)

NextZero ==
    \/ SendStart
    \/ SendFfTx
    \/ SendLoopTop
    \/ SendCanRx
    \/ SendCfTx
    \/ SendCfSleep
    \/ PeerFc
    \/ Tick

SpecZero == InitZero /\ [][NextZero]_vars

\* The sender against a peer whose FC frames may be shorter than an FC
\* frame (no clock).
NextShort ==
    \/ SendStart
    \/ SendFfTx
    \/ SendLoopTop
    \/ SendCanRx
    \/ SendCfTx
    \/ SendCfSleep
    \/ PeerFc
    \/ PeerShortFc

SpecShort == InitSend /\ [][NextShort]_vars

\* The receiver alone on CAN FD against an arbitrary peer (no clock), with
\* buffers smaller and larger than the messages announced.
FdRecvCaps == {8, 20, 100}

InitFd ==
    \E m \in Modes, cap \in FdRecvCaps, bs \in PeerBs :
        InitWith(isotp_ctx_init("CANFD_FORMAT", m, 0, ISOTP_DEFAULT_TIMEOUTS),
                 << >>, "off",
                 isotp_ctx_init("CANFD_FORMAT", m, 0, ISOTP_DEFAULT_TIMEOUTS),
                 cap, RecvLocals(bs, 0), "idle", MaxPeerFrames)

NextFd ==
    \/ RecvStart
    \/ RecvCanRxFirst
    \/ RecvFcTx
    \/ RecvCfLoop
    \/ RecvCanRxCf
    \/ PeerFdFrame

SpecFd == InitFd /\ [][NextFd]_vars

\* The receiver alone against an arbitrary peer, with a clock.
RecvCaps == {10, 20}

InitRecv ==
    \E m \in Modes, cap \in RecvCaps, bs \in PeerBs :
        InitWith(isotp_ctx_init("CAN_FORMAT", m, 0, ShortTimeouts),
                 << >>, "off",
                 isotp_ctx_init("CAN_FORMAT", m, 0, ShortTimeouts),
                 cap, RecvLocals(bs, 0), "idle", MaxPeerFrames)

NextRecv ==
    \/ RecvStart
    \/ RecvCanRxFirst
    \/ RecvCanRxFail
    \/ RecvFcTx
    \/ RecvCfLoop
    \/ RecvCanRxCf
    \/ PeerFrame
    \/ Tick

SpecRecv == InitRecv /\ [][NextRecv]_vars

\* the application sets the address extension of the receiving context
\* before it calls isotp_recv
SetAddressExtension ==
    /\ r_pc = "idle"
    /\ hist.ae_set = -1
    /\ \E ae \in SenderAEs :
          /\ rctx' = set_isotp_address_extension(rctx, ae)
          /\ hist' = [hist EXCEPT !.ae_set = ae]
    /\ UNCHANGED <<sctx, send_buf, s_pc, s_rc, s_loc, recv_buf, r_pc, r_rc, r_loc,
                   s2r, r2s, now>>

\* The receiver alone, no clock: the application may set the address
\* extension first; the peer sends frames of every PCI.
NextPeer ==
    \/ SetAddressExtension
    \/ RecvStart
    \/ RecvCanRxFirst
    \/ RecvFcTx
    \/ RecvCfLoop
    \/ RecvCanRxCf
    \/ PeerFrame
    \/ PeerOtherFrame

SpecPeer == InitRecv /\ [][NextPeer]_vars

\* The SF codec and parse_ff alone, on new contexts of every format and
\* addressing mode; the receive buffer holds the longest Single Frame.
SfLengths == 0..(CANFD_MAX_DATALEN + 1)

InitFirst ==
    \E f \in Formats, m \in Modes, n \in SfLengths, ae \in SenderAEs :
        InitWith(set_isotp_address_extension(
                     isotp_ctx_init(f, m, 0, ISOTP_DEFAULT_TIMEOUTS), ae),
                 Payload(n), "codec",
                 isotp_ctx_init(f, m, 0, ISOTP_DEFAULT_TIMEOUTS),
                 CANFD_MAX_DATALEN, RecvLocals(0, 0), "codec", 0)

NextFirst ==
    \/ CodecPrepareSf
    \/ CodecParseBuiltSf
    \/ CodecParseSf
    \/ CodecParseFirstFf

SpecFirst == InitFirst /\ [][NextFirst]_vars

\* The STmin encoder and decoder alone: a chain of conversions that starts
\* from a number of microseconds or from a byte.
StminUsecs ==
    {-1, 0, 50, 99, 150, 999, 1500, 126999, 127001, 200000}
        \cup { 100 * k : k \in 1..9 }
        \cup { USEC_PER_MSEC * k : k \in 1..(MAX_STMIN + 1) }

StminBytes == 0..UINT8_MAX

MaxChain == 4

InitStmin ==
    /\ sctx = isotp_ctx_init("CAN_FORMAT", "NORMAL", 0, ISOTP_DEFAULT_TIMEOUTS)
    /\ send_buf = << >>
    /\ s_pc = "off"
    /\ s_rc = 0
    /\ s_loc = SendLocals
    /\ rctx = isotp_ctx_init("CAN_FORMAT", "NORMAL", 0, ISOTP_DEFAULT_TIMEOUTS)
    /\ recv_buf = << >>
    /\ r_pc = "off"
    /\ r_rc = 0
    /\ r_loc = RecvLocals(0, 0)
    /\ s2r = << >>
    /\ r2s = << >>
    /\ now = 0
    /\ \/ \E v \in StminUsecs : hist = [hist0 EXCEPT !.op = "usec", !.stmin_chain = <<v>>]
       \/ \E b \in StminBytes : hist = [hist0 EXCEPT !.op = "byte", !.stmin_chain = <<b>>]

\* the last value of the chain, a number of microseconds, is encoded
StminEncode ==
    /\ hist.op = "usec"
    /\ Len(hist.stmin_chain) < MaxChain
    /\ hist' = [hist EXCEPT
          !.op = "byte",
          !.stmin_chain = Append(@, fc_stmin_usec_to_parameter(@[Len(@)]))]
    /\ UNCHANGED <<sctx, send_buf, s_pc, s_rc, s_loc, rctx, recv_buf, r_pc, r_rc,
                   r_loc, s2r, r2s, now>>

\* the last value of the chain, a byte, is decoded
StminDecode ==
    /\ hist.op = "byte"
    /\ Len(hist.stmin_chain) < MaxChain
    /\ hist' = [hist EXCEPT
          !.op = "usec",
          !.stmin_chain = Append(@, fc_stmin_parameter_to_usec(@[Len(@)]))]
    /\ UNCHANGED <<sctx, send_buf, s_pc, s_rc, s_loc, rctx, recv_buf, r_pc, r_rc,
                   r_loc, s2r, r2s, now>>

NextStmin ==
    \/ StminEncode
    \/ StminDecode

SpecStmin == InitStmin /\ [][NextStmin]_vars

\* The parsers alone.
InitCodec ==
    \E m \in Modes, cap \in RecvCaps :
        InitWith(isotp_ctx_init("CAN_FORMAT", m, 0, ShortTimeouts),
                 << >>, "off",
                 isotp_ctx_init("CAN_FORMAT", m, 0, ShortTimeouts),
                 cap, RecvLocals(0, 0), "codec", 0)

NextCodec ==
    \/ CodecParseCf
    \/ CodecParseFf

SpecCodec == InitCodec /\ [][NextCodec]_vars

\* parse_fc alone.
NextFc == CodecParseFc

SpecFc == InitCodec /\ [][NextFc]_vars

-----------------------------------------------------------------------------
(* Properties                                                              *)

BothSucceeded ==
    /\ s_pc = "done" /\ s_rc >= 0
    /\ r_pc = "done" /\ r_rc >= 0

\* C1: when isotp_send of a payload P and isotp_recv into a buffer of at
\* least Len(P) bytes, run over a lossless in-order transport with the same
\* format and addressing mode, both return success, the receive buffer holds
\* exactly P (and nothing was written behind it), for every block size and
\* STmin the receiver advertises.
C1_RoundTrip ==
    BothSucceeded =>
        /\ Slice(recv_buf, 0, Len(send_buf)) = send_buf
        /\ \A i \in (Len(send_buf) + 1)..Len(recv_buf) : recv_buf[i] = 0
        /\ ~hist.oob

\* a segmented transfer of at least two CFs has completed on both sides
C1_Witness ==
    /\ BothSucceeded
    /\ Len(hist.sns) >= 2
    /\ Len(send_buf) > sctx.can_max_datalen

\* C2: the sequence numbers of the CFs transmitted within one isotp_send are
\* 1, 2, ..., 15, 0, 1, ... with no gap and no repeat, also across the FC
\* block boundaries.
C2_SequenceNumbers ==
    \A i \in 1..Len(hist.sns) : hist.sns[i] = i % 16

\* a send of more than 16 CFs, cut into blocks by FC frames, has completed
C2_Witness ==
    /\ s_pc = "done" /\ s_rc = EOK
    /\ Len(hist.sns) >= 17
    /\ hist.cts_bs > 0
    /\ hist.cts_bs < Len(hist.sns)

\* C10: after an FC.CTS with block size bs > 0 the sender transmits at most
\* bs CFs before it next waits for an FC; after an FC.CTS with bs = 0 it
\* transmits all remaining CFs and never waits for a further FC.
C10_BlockSize ==
    /\ hist.cts_bs > 0 => hist.cf_in_block <= hist.cts_bs
    /\ ~hist.wait_after_bs0
    /\ (hist.cts_bs = 0 /\ s_pc \in {"loop_top", "fc_rx"}) =>
           sctx.remaining_datalen = 0

\* the sender has sent a full block of bs > 1 CFs and waits for the next FC
C10_Witness ==
    /\ s_pc = "fc_rx"
    /\ hist.cts_bs > 1
    /\ hist.cf_in_block = hist.cts_bs
    /\ sctx.remaining_datalen > 0


\* C3: for every FC.WAIT cap max_wait in 1..255, isotp_send fails with
\* ECONNABORTED on the (max_wait + 1)-th consecutive FC.WAIT and not earlier.
C3_WaitCap ==
    sctx.fc_wait_max \in 1..UINT8_MAX =>
        /\ hist.wait_run > sctx.fc_wait_max =>
               s_pc = "done" /\ s_rc = -ECONNABORTED
        /\ (s_pc = "done" /\ s_rc = -ECONNABORTED /\ s_loc.fs = "WAIT") =>
               hist.wait_run = sctx.fc_wait_max + 1

\* a cap of 2 has been enforced on the third consecutive FC.WAIT
C3_Witness ==
    /\ sctx.fc_wait_max = 2
    /\ hist.wait_run = 3
    /\ s_pc = "done" /\ s_rc = -ECONNABORTED

\* C4: the timer bound of an FC wait is N_As only until the first FC after
\* the FF has been received, and N_Bs for every later FC wait, after an
\* FC.WAIT as well as after a completed block of CFs with data remaining.
C4_TimerBound ==
    s_pc = "fc_rx" =>
        hist.applicable = (IF hist.first_fc_done THEN "n_bs" ELSE "n_as")

\* an FC wait after an FC.WAIT runs under N_Bs
C4_Witness ==
    /\ s_pc = "fc_rx"
    /\ hist.wait_run = 1
    /\ hist.applicable = "n_bs"

\* C5: when, after the FF or a timer restart, no FC is received before the
\* applicable bound has elapsed, isotp_send returns ETIMEDOUT (or the error
\* of its transport) and transmits no CF afterwards.
C5_FcTimeout ==
    /\ ~hist.cf_after_late
    /\ (hist.late /\ s_pc = "done") =>
           s_rc \in (TransportErrors \cup {-ETIMEDOUT})
    /\ hist.late => s_pc \in {"fc_rx", "done"}

\* the timer check of the loop has fired: ETIMEDOUT without any CF
C5_Witness ==
    /\ s_pc = "done" /\ s_rc = -ETIMEDOUT
    /\ hist.ff_sent
    /\ hist.sns = << >>
    /\ timeout_expired(sctx, sctx.timeouts.n_as, now)


\* C6: when isotp_recv has accepted an FF and sent FC.CTS and no CF arrives,
\* it returns ETIMEDOUT no earlier than N_Cr after the timer was last
\* started.
C6_CrTimeout ==
    (/\ r_pc = "done" /\ r_rc = -ETIMEDOUT
     /\ hist.fc_sent >= 1
     /\ hist.cf_rx_since_fc = 0) =>
        timeout_elapsed(rctx, now) >= rctx.timeouts.n_cr

\* the N_Cr check of the loop has fired after an FC.CTS without any CF
C6_Witness ==
    /\ r_pc = "done" /\ r_rc = -ETIMEDOUT
    /\ hist.fc_sent = 1
    /\ hist.cf_rx_since_fc = 0
    /\ timeout_elapsed(rctx, now) >= rctx.timeouts.n_cr

\* FF_DL of a short-form FF `frame` as the context would read it
FrameFfDl(ctx, frame) ==
    LowNibble(frame[ctx.address_extension_len + 1]) * 256
        + frame[ctx.address_extension_len + 2]

FirstIsOversizedFf ==
    /\ Len(hist.first) >= rctx.address_extension_len + 2
    /\ PCI_MASK_HI(hist.first[rctx.address_extension_len + 1]) = PCI_FF
    /\ FrameFfDl(rctx, hist.first) > Len(recv_buf)

\* C7: when the first frame isotp_recv receives is an FF whose FF_DL exceeds
\* the capacity of the receive buffer, exactly one FC.OVFLW is transmitted
\* and isotp_recv returns ECONNABORTED.
C7_Overflow ==
    (r_pc = "done" /\ FirstIsOversizedFf) =>
        /\ hist.ovflw_sent = 1
        /\ hist.fc_sent = 1
        /\ r_rc = -ECONNABORTED

\* isotp_recv has returned after an FF larger than the receive buffer
C7_Witness ==
    /\ r_pc = "done"
    /\ FirstIsOversizedFf
    /\ r_rc < 0

ParseCfStep == hist'.calls = hist.calls + 1 /\ hist'.op = "parse_cf"

FrameIsCf(ctx, frame) ==
    PCI_MASK_HI(frame[ctx.address_extension_len + 1]) = PCI_CF

\* C8: parse_cf on a CF whose SN is not the expected one returns
\* ECONNABORTED, and from then on every further parse_cf call on a CF fails,
\* whatever its SN (0..15), until a new FF has been parsed.
C8_AbortSticks ==
    [][ (ParseCfStep /\ FrameIsCf(rctx, hist'.first)) =>
          /\ (~hist.poisoned
              /\ LowNibble(hist'.first[rctx.address_extension_len + 1])
                    # rctx.sequence_num) => r_rc' = -ECONNABORTED
          /\ hist.poisoned => r_rc' < 0 ]_vars

\* after an abort, CFs have been offered to parse_cf at least twice
C8_Witness ==
    /\ hist.poisoned
    /\ hist.cf_while_poisoned >= 2
    /\ r_rc < 0

C11_FcPerBlock ==
    /\ r_pc = "fc_tx" =>
           /\ rctx.can_frame[rctx.address_extension_len + 1] = PCI_FC + FC_FS_CTS
           /\ rctx.remaining_datalen > 0
           /\ hist.fc_sent >= 1 =>
                  (r_loc.blocksize > 0 /\ hist.cf_acc = r_loc.blocksize)
    /\ r_pc \in {"cf_loop", "cf_rx"} => hist.fc_sent >= 1
    /\ r_loc.blocksize > 0 => hist.cf_acc <= r_loc.blocksize
    /\ r_loc.blocksize = 0 => hist.fc_sent <= 1

\* a second FC.CTS is about to be transmitted after a complete block
C11_Witness ==
    /\ r_pc = "fc_tx"
    /\ hist.fc_sent = 1
    /\ r_loc.blocksize > 0
    /\ hist.cf_acc = r_loc.blocksize
    /\ rctx.remaining_datalen > 0

RemainingInBounds(ctx) ==
    0 <= ctx.remaining_datalen /\ ctx.remaining_datalen <= ctx.total_datalen

\* C12: at every point during isotp_send and isotp_recv, and when either
\* call has returned with success or with any error, the context satisfies
\* 0 <= remaining_datalen <= total_datalen.
C12_RemainingBounds ==
    /\ RemainingInBounds(sctx)
    /\ RemainingInBounds(rctx)

\* isotp_recv has returned an error in the middle of a transfer
C12_Witness ==
    /\ r_pc = "done" /\ r_rc < 0
    /\ hist.fc_sent >= 1
    /\ rctx.total_datalen > 0

\* the transfer state of a context that is idle (what isotp_ctx_reset clears)
IdleCtx(ctx) ==
    /\ ctx.total_datalen = 0
    /\ ctx.remaining_datalen = 0
    /\ ctx.fc_wait_count = 0

\* C13: whenever isotp_send or isotp_recv has returned, with success or
\* with any error, the context is idle: remaining_datalen is 0 and no state
\* of the finished or aborted transfer is left in it.
C13_IdleAtReturn ==
    /\ s_pc = "done" => IdleCtx(sctx)
    /\ r_pc = "done" => IdleCtx(rctx)

\* isotp_send has returned after an FC.OVFLW
C13_Witness ==
    /\ s_pc = "done" /\ s_rc = -ECONNABORTED
    /\ s_loc.fs = "OVFLW"
    /\ hist.ff_sent

\* the context a call would work on had the context been initialised just
\* before the call (same configuration, same address extension)
Fresh(ctx) ==
    set_isotp_address_extension(
        isotp_ctx_init(ctx.can_format, ctx.addressing_mode,
                       ctx.fc_wait_max, ctx.timeouts),
        ctx.address_extension)

\* `ref` with the fields the call has not written yet taken from `ctx`
Carry(ref, ctx, fields) ==
    [f \in DOMAIN ref |-> IF f \in fields THEN ctx[f] ELSE ref[f]]

\* what isotp_send does up to its first can_tx on a fresh context
FreshSendStart ==
    IF Len(send_buf) <= Fresh(sctx).can_max_datalen
    THEN [path |-> "sf", r |-> prepare_sf(Fresh(sctx), send_buf, Len(send_buf))]
    ELSE [path |-> "ff", r |-> prepare_ff(Fresh(sctx), send_buf, Len(send_buf))]

\* what isotp_recv does with its first frame on a fresh context
FreshRecvFirst ==
    LET c0 == [RxInto(Fresh(rctx), hist.first) EXCEPT !.can_frame_len = Len(hist.first)]
        e  == EmptyBuf(Len(recv_buf))
    IN  IF PCI_MASK_HI(hist.first[rctx.address_extension_len + 1]) = PCI_SF
        THEN [path |-> "sf", r |-> parse_sf(c0, e, Len(e))]
        ELSE [path |-> "ff", r |-> parse_ff(c0, e, Len(e))]

C14_Sender ==
    LET ref == FreshSendStart
    IN  /\ s_pc = "sf_tx" =>
               /\ ref.path = "sf" /\ ref.r.rc >= 0
               /\ sctx = Carry(ref.r.ctx, sctx,
                               {"sequence_num", "fc_wait_count", "timer_start_us"})
        /\ s_pc = "ff_tx" =>
               /\ ref.path = "ff" /\ ref.r.rc >= 0
               /\ sctx = Carry(ref.r.ctx, sctx, {"fc_wait_count", "timer_start_us"})
        /\ (s_pc = "loop_top" /\ hist.ff_sent /\ hist.applicable = "none") =>
               sctx = timeout_start([ref.r.ctx EXCEPT !.fc_wait_count = 0], now)
        /\ (s_pc = "done" /\ hist.sf_sent) =>
               s_rc = can_tx_result(TxFrame(ref.r.ctx))
        /\ (s_pc = "done" /\ ~hist.sf_sent /\ ~hist.ff_sent) =>
               ref.r.rc < 0 /\ s_rc = ref.r.rc

C14_Receiver ==
    /\ r_pc = "first_rx" =>
           rctx = Carry(Fresh(rctx), rctx,
                        {"sequence_num", "fc_wait_count", "timer_start_us"})
    /\ (r_pc = "done" /\ hist.fc_sent = 0 /\ hist.first # << >>) =>
           LET ref == FreshRecvFirst
           IN  /\ recv_buf = ref.r.buf
               /\ r_rc = IF ref.r.rc < 0 THEN ref.r.rc
                         ELSE ref.r.ctx.total_datalen
    /\ (r_pc = "fc_tx" /\ hist.fc_sent = 0) =>
           LET ref == FreshRecvFirst
               fc  == prepare_fc(timeout_start(ref.r.ctx, now), "CTS",
                                 r_loc.blocksize, r_loc.stmin_usec)
           IN  /\ ref.path = "ff" /\ ref.r.rc >= 0 /\ fc.rc >= 0
               /\ recv_buf = ref.r.buf
               /\ rctx = Carry(fc.ctx, rctx, {"fc_wait_count"})

\* C14: a call of isotp_send or isotp_recv on a context that an earlier
\* call has used behaves as on a fresh context: the first frame it builds,
\* the bytes it delivers and its return code are those of a fresh context,
\* and once the First Frame has been sent (isotp_send) or answered
\* (isotp_recv) the whole transfer state is that of a fresh context, so
\* nothing of the FC.WAIT count, expected sequence number, total and
\* remaining length or timer start of the earlier call is ever used.
C14_StartsIdle ==
    /\ C14_Sender
    /\ C14_Receiver
    /\ BothSucceeded => Slice(recv_buf, 0, Len(send_buf)) = send_buf

\* a segmented transfer has completed on two contexts that earlier calls
\* had left in a state other than the fresh one
C14_Witness ==
    /\ hist.left_behind
    /\ BothSucceeded
    /\ Len(hist.sns) >= 2
    /\ sctx.fc_wait_count = 0

\* C15: on success isotp_send returns the number of payload bytes sent,
\* i.e. the length it was given, for a single-frame message and for a
\* multi-frame message.
C15_SendReturnsLen ==
    (s_pc = "done" /\ s_rc >= 0) => s_rc = Len(send_buf)

\* a multi-frame isotp_send has returned success
C15_Witness ==
    /\ s_pc = "done" /\ s_rc >= 0
    /\ hist.ff_sent
    /\ Len(hist.sns) >= 2
    /\ sctx.remaining_datalen = 0

\* the payload length the first frame of a message announces (SF_DL of a
\* classic SF, FF_DL of a short-form FF)
FrameDl(ctx, frame) ==
    IF PCI_MASK_HI(frame[ctx.address_extension_len + 1]) = PCI_SF
    THEN LowNibble(frame[ctx.address_extension_len + 1])
    ELSE FrameFfDl(ctx, frame)

\* C16: on success isotp_recv returns the number of payload bytes received:
\* SF_DL for a Single Frame message (7 for 07 A0 A1 A2 A3 A4 A5 A6) and FF_DL
\* for a multi-frame message.
C16_RecvReturnsLen ==
    (r_pc = "done" /\ r_rc >= 0) => r_rc = FrameDl(rctx, hist.first)

\* a multi-frame isotp_recv has returned FF_DL
C16_Witness ==
    /\ r_pc = "done" /\ r_rc > 0
    /\ PCI_MASK_HI(hist.first[rctx.address_extension_len + 1]) = PCI_FF
    /\ r_rc = FrameFfDl(rctx, hist.first)
    /\ hist.fc_sent >= 1

\* the largest payload one Single Frame carries: the frame without the
\* address extension and the SF header (one PCI byte, two with the escape
\* form of CAN FD)
SfMaxPayload(ctx) ==
    IF ctx.can_format = "CANFD_FORMAT"
    THEN can_max_datalen(ctx.can_format) - ctx.address_extension_len - 2
    ELSE can_max_datalen(ctx.can_format) - ctx.address_extension_len - 1

\* C17: isotp_send transmits the message as one Single Frame exactly when
\* its length is at most the largest payload of a Single Frame for the
\* context's CAN format and addressing mode, and starts a multi-frame
\* transfer with a First Frame for every larger length.
C17_SfOrFf ==
    s_pc # "idle" =>
        IF Len(send_buf) <= SfMaxPayload(sctx)
        THEN (s_pc = "sf_tx" \/ hist.sf_sent) /\ ~hist.ff_sent
        ELSE (s_pc = "ff_tx" \/ hist.ff_sent) /\ ~hist.sf_sent

\* a First Frame has been built for a message two bytes longer than the
\* largest Single Frame payload
C17_Witness ==
    /\ s_pc = "ff_tx"
    /\ Len(send_buf) = SfMaxPayload(sctx) + 2

\* the sender takes an FC frame with flow status OVFLW out of can_rx
OvflwStep ==
    /\ s_pc = "fc_rx"
    /\ r2s # << >>
    /\ r2s' = Tail(r2s)
    /\ Head(r2s)[sctx.address_extension_len + 1] = PCI_FC + FC_FS_OVFLW

\* C18: when isotp_send receives an FC with flow status OVFLW it returns
\* ECONNABORTED in that very step and no frame is transmitted from then on.
C18_Ovflw ==
    /\ [][ OvflwStep => (s_pc' = "done" /\ s_rc' = -ECONNABORTED /\ s2r' = s2r) ]_vars
    /\ [][ s_loc.fs = "OVFLW" => (s2r' = s2r /\ hist'.sns = hist.sns) ]_vars

\* an FC.OVFLW has ended a transfer of which CFs had already been sent
C18_Witness ==
    /\ s_pc = "done" /\ s_rc = -ECONNABORTED
    /\ s_loc.fs = "OVFLW"
    /\ Len(hist.sns) >= 1
    /\ sctx.remaining_datalen > 0

\* C19: parse_fc accepts an FC frame only when the low nibble of its PCI
\* byte is 0, 1 or 2; for every other value 3..15 it fails with EBADMSG.
C19_FlowStatus ==
    hist.op = "parse_fc" =>
        LET n == LowNibble(hist.first[rctx.address_extension_len + 1])
        IN  IF n \in {FC_FS_CTS, FC_FS_WAIT, FC_FS_OVFLW}
            THEN r_rc = EOK
            ELSE r_rc = -EBADMSG

\* parse_fc has rejected the frame 37 .. with EBADMSG
C19_Witness ==
    /\ hist.op = "parse_fc"
    /\ LowNibble(hist.first[rctx.address_extension_len + 1]) = FC_FS_MASK
    /\ r_rc = -EBADMSG

\* C20: when can_tx or can_rx returns a negative code during isotp_send or
\* isotp_recv, the call returns that code unchanged, and it puts no further
\* frame on the bus and takes none from it.
C20_TransportError ==
    /\ [](hist.s_err # 0 => (s_pc = "done" /\ s_rc = hist.s_err))
    /\ [](hist.r_err # 0 => (r_pc = "done" /\ r_rc = hist.r_err))
    /\ [][ hist.s_err # 0 =>
             (s_pc' = "done" /\ Len(s2r') <= Len(s2r) /\ Len(r2s') >= Len(r2s)) ]_vars
    /\ [][ hist.r_err # 0 =>
             (r_pc' = "done" /\ Len(r2s') <= Len(r2s) /\ Len(s2r') >= Len(s2r)) ]_vars

\* both calls have failed in the middle of a transfer, each with the error
\* of its transport
C20_Witness ==
    /\ hist.s_err = -EFAULT /\ s_pc = "done" /\ s_rc = -EFAULT
    /\ hist.r_err = -ETIMEDOUT /\ r_pc = "done" /\ r_rc = -ETIMEDOUT
    /\ Len(hist.sns) >= 1
    /\ hist.fc_sent >= 1

-----------------------------------------------------------------------------
(* Frames on the bus                                                       *)

\* data lengths that a DLC of 8 or more stands for
DlcLens == {can_dlc_to_datalen(d, "CANFD_FORMAT") : d \in 8..15}

\* header and payload of the frame each engine is about to hand to can_tx,
\* counted from the transfer (not from the builder's own bookkeeping)
SfUsed(ctx) ==
    ctx.address_extension_len + Len(send_buf)
      + (IF Len(send_buf) <= 7 - ctx.address_extension_len THEN 1 ELSE 2)

CfRoom(ctx) == ctx.can_max_datalen - ctx.address_extension_len - 1

CfUsed(ctx) ==
    LET ffp == ctx.can_max_datalen - ctx.address_extension_len - 2
    IN  ctx.address_extension_len + 1
          + (IF ctx.remaining_datalen > 0 THEN CfRoom(ctx)
             ELSE ((ctx.total_datalen - ffp - 1) % CfRoom(ctx)) + 1)

Padded(frame, used) ==
    /\ Len(frame) \in DlcLens
    /\ \A i \in (used + 1)..Len(frame) : frame[i] = CAN_PADDING

\* C21: every frame isotp_send or isotp_recv hands to can_tx (SF, FF, CF,
\* FC) has a length that is the data length of a DLC of at least 8 (8, 12,
\* 16, 20, 24, 32, 48 or 64), and every byte after its header and payload
\* is 0xCC.
C21_Padding ==
    /\ s_pc = "sf_tx" => Padded(TxFrame(sctx), SfUsed(sctx))
    /\ s_pc = "ff_tx" => Padded(TxFrame(sctx), sctx.can_max_datalen)
    /\ s_pc = "cf_tx" => Padded(TxFrame(sctx), CfUsed(sctx))
    /\ r_pc = "fc_tx" => Padded(TxFrame(rctx), rctx.address_extension_len + 3)

\* isotp_send is about to hand a Single Frame of fewer than 8 bytes to can_tx
C21_Witness ==
    /\ s_pc = "sf_tx"
    /\ Len(TxFrame(sctx)) < CAN_MAX_DATALEN

\* the frames other than the SF: FF, CF and FC are padded as C21 says
C21_OtherFrames ==
    /\ s_pc = "ff_tx" => Padded(TxFrame(sctx), sctx.can_max_datalen)
    /\ s_pc = "cf_tx" => Padded(TxFrame(sctx), CfUsed(sctx))
    /\ r_pc = "fc_tx" => Padded(TxFrame(rctx), rctx.address_extension_len + 3)

\* C22: after set_isotp_address_extension(ctx, ae) on a context with an
\* address extension, every frame the context transmits carries ae as
\* its first byte until the next set_isotp_address_extension, the frames
\* transmitted during an isotp_recv included.
C22_AeKept ==
    (hist.ae_set # -1 /\ rctx.address_extension_len > 0 /\ r_pc = "fc_tx")
        => TxFrame(rctx)[1] = hist.ae_set

\* isotp_recv is about to transmit an FC whose first byte is the AE of the
\* peer's First Frame, not the one the application has set
C22_Witness ==
    /\ hist.ae_set # -1
    /\ rctx.address_extension_len > 0
    /\ r_pc = "fc_tx"
    /\ TxFrame(rctx)[1] # hist.ae_set
    /\ TxFrame(rctx)[1] = hist.first[1]

FirstPci == hist.first[rctx.address_extension_len + 1] \div 16

\* C24: if the first frame isotp_recv receives has PCI nibble 2 (CF), 3
\* (FC) or any other value than 0 and 1, isotp_recv returns ENOMSG and has
\* transmitted no frame.
C24_NotAFirstFrame ==
    (r_pc = "done" /\ Len(hist.first) > rctx.address_extension_len
       /\ FirstPci \notin {0, 1})
        => (r_rc = -ENOMSG /\ hist.fc_sent = 0 /\ r2s = << >>)

\* isotp_recv has returned ENOMSG for a first frame with PCI nibble 15
C24_Witness ==
    /\ r_pc = "done"
    /\ Len(hist.first) > rctx.address_extension_len
    /\ FirstPci = 15
    /\ r_rc = -ENOMSG

\* C25: for every CAN format, addressing mode and payload P whose length
\* prepare_sf accepts, parse_sf on the frame prepare_sf built returns the
\* length of P and yields exactly the bytes of P.
C25_SfRoundTrip ==
    (s_pc = "built" /\ s_rc >= 0 /\ r_pc = "parsed")
        => /\ r_rc = Len(send_buf)
           /\ Slice(recv_buf, 0, Len(send_buf)) = send_buf

\* prepare_sf has accepted the empty payload and parse_sf has rejected the
\* frame it built
C25_Witness ==
    /\ s_pc = "built" /\ s_rc = 0
    /\ send_buf = << >>
    /\ r_pc = "parsed"
    /\ r_rc = -ENOTSUP

\* the payloads of 1 byte and more do make the round trip
C25_NonEmpty ==
    (s_pc = "built" /\ s_rc >= 1 /\ r_pc = "parsed")
        => /\ r_rc = Len(send_buf)
           /\ Slice(recv_buf, 0, Len(send_buf)) = send_buf

\* parse_sf has been called on a frame from a peer whose PCI byte is that
\* of an SF
ParsedPeerSf ==
    /\ s_pc = "codec" /\ r_pc = "parsed" /\ hist.op = "parse_sf"
    /\ hist.first[rctx.address_extension_len + 1] \div 16 = 0

\* the SF_DL nibble of a short-form frame, the SF_DL byte of an escape-form
\* frame
SfDlNibble == hist.first[rctx.address_extension_len + 1] % 16
SfDlByte == hist.first[rctx.address_extension_len + 2]

\* C26: parse_sf on a short-form frame (at most 8 bytes) succeeds only
\* when the SF_DL nibble is in 1..7 (normal addressing) or 1..6 (extended
\* addressing); SF_DL 0 and every other nibble value fail with NOTSUP.
C26_ShortSfDl ==
    (ParsedPeerSf /\ Len(hist.first) <= CAN_MAX_DATALEN)
        => IF SfDlNibble \in 1..(CAN_MAX_DATALEN - 1 - rctx.address_extension_len)
           THEN TRUE
           ELSE r_rc = -ENOTSUP

\* parse_sf has accepted a short-form frame whose SF_DL nibble is 9
C26_Witness ==
    /\ ParsedPeerSf /\ Len(hist.first) <= CAN_MAX_DATALEN
    /\ SfDlNibble = 9
    /\ r_rc = 1

\* C27: parse_sf on an escape-form frame (9..64 bytes) fails with NOTSUP
\* whenever the declared SF_DL exceeds the frame length minus the header
\* (address extension if any, PCI byte, length byte); that includes
\* SF_DL = 62 under extended addressing.
C27_EscSfDl ==
    (ParsedPeerSf /\ Len(hist.first) > CAN_MAX_DATALEN
       /\ SfDlByte > Len(hist.first) - (rctx.address_extension_len + 2))
        => r_rc = -ENOTSUP

\* parse_sf has accepted a 12-byte frame that declares 40 bytes of payload
C27_Witness ==
    /\ ParsedPeerSf /\ Len(hist.first) = 12
    /\ SfDlByte = 40
    /\ r_rc = 40

\* FF_DL of the frame parse_ff was called on: 12 bits after the PCI nibble,
\* or 32 bits after the bytes 10 00
ParsedFfDl ==
    LET ael == rctx.address_extension_len
    IN  IF FrameFfDl(rctx, hist.first) # 0 THEN FrameFfDl(rctx, hist.first)
        ELSE hist.first[ael + 3] * 16777216 + hist.first[ael + 4] * 65536
               + hist.first[ael + 5] * 256 + hist.first[ael + 6]

\* FF_DLmin by CAN format and addressing mode
MinFfDl ==
    IF rctx.can_format = "CAN_FORMAT"
    THEN (IF rctx.addressing_mode = "NORMAL" THEN 8 ELSE 7)
    ELSE (IF rctx.addressing_mode = "NORMAL" THEN 63 ELSE 62)

C28_EscRejected ==
    /\ r_pc = "parsed" /\ hist.op = "parse_ff"
    /\ FrameFfDl(rctx, hist.first) = 0
    /\ ParsedFfDl = MinFfDl - 1
    /\ r_rc = -EBADMSG

\* C29: the STmin encoder and decoder round-trip on every value they emit:
\* for every byte b the encoder can produce, encoding the decoding of b
\* gives b, and for every number of microseconds v the decoder can produce,
\* decoding the encoding of v gives v.  (From the second value on, a value
\* of a chain is emitted by the encoder or by the decoder; two conversions
\* later the chain shows what the round trip makes of it.)
C29_StminRoundTrip ==
    \A i \in 4..Len(hist.stmin_chain) :
        hist.stmin_chain[i] = hist.stmin_chain[i - 2]

\* the byte F5 has been decoded to 500 us, encoded to F5 and decoded to 500
C29_Witness ==
    hist.stmin_chain = <<245, 500, 245, 500>>

\* the encoder has emitted 7F for a value above 127 ms, and 7F has made the
\* round trip
C29_Cap ==
    hist.stmin_chain = <<200000, MAX_STMIN, MAX_STMIN_USEC, MAX_STMIN>>

\* C30: between any two consecutive CFs that isotp_send transmits, it
\* sleeps for the STmin, in microseconds, decoded from the most recently
\* received FC frame: when a CF is about to be transmitted every earlier CF
\* has been followed by a sleep, and each sleep lasted what the STmin byte
\* of the latest FC decodes to.
C30_StminSleep ==
    /\ s_pc = "cf_tx" => Len(hist.slept) = Len(hist.sns)
    /\ \A i \in 1..Len(hist.slept) :
          hist.slept[i][1] = fc_stmin_parameter_to_usec(hist.slept[i][2])

\* the second CF has gone out after a sleep of 500 us, the STmin byte of
\* the FC being F5
C30_Witness ==
    /\ Len(hist.sns) >= 2
    /\ hist.slept[1] = <<500, 245>>

\* ---------------------------------------------------------------------
\* Limits of a transfer
\* ---------------------------------------------------------------------

\* C31: with max_wait configured as 0 the FC.WAIT cap is disabled: no
\* number of consecutive FC.WAIT frames makes isotp_send fail with
\* ECONNABORTED.  A call that ended with ECONNABORTED ended on an
\* FC.OVFLW, never on an FC.WAIT, however long the run of FC.WAIT was.
C31_NoCap ==
    (sctx.fc_wait_max = 0 /\ s_pc = "done" /\ s_rc = -ECONNABORTED) =>
        s_loc.fs = "OVFLW"

\* with max_wait = 0 the sender has taken 257 consecutive FC.WAIT frames,
\* one more than its 8-bit counter holds, and waits for the next FC
C31_Witness ==
    /\ sctx.fc_wait_max = 0
    /\ hist.wait_run = UINT8_MAX + 2
    /\ s_pc = "fc_rx"

SendBlocked == s_pc = "fc_rx" /\ r2s = << >>

RecvBlocked == r_pc \in {"first_rx", "cf_rx"} /\ s2r = << >>

\* no step of either call is possible: each has returned or blocks
Stalled ==
    /\ s_pc = "done" \/ SendBlocked
    /\ r_pc = "done" \/ RecvBlocked

\* neither call has returned an error, and when nothing can move any more
\* both have returned success
NoErrorNoStall ==
    /\ s_pc = "done" => s_rc >= 0
    /\ r_pc = "done" => r_rc >= 0
    /\ Stalled => BothSucceeded

\* C33: when isotp_send and isotp_recv run against each other over a
\* lossless in-order transport and no timer expires, then for every
\* multi-frame message length (longer than the largest Single Frame
\* payload) and every advertised block size both calls return success:
\* neither returns an error, and they never both block in can_rx waiting
\* for the other.
C33_BothReturn ==
    Len(send_buf) > SfMaxPayload(sctx) => NoErrorNoStall

\* both calls have returned success after a transfer in blocks of three
\* CFs that needed more than one FC.CTS
C33_Witness ==
    /\ BothSucceeded
    /\ r_loc.blocksize = 3
    /\ Len(hist.sns) > 3

\* once a First Frame has been transmitted the two calls agree on the
\* blocks: no error, no stall
C33_AfterFf ==
    hist.ff_sent => NoErrorNoStall

\* isotp_send takes a frame shorter than an FC frame out of can_rx
ShortFcStep ==
    /\ s_pc = "fc_rx"
    /\ r2s # << >>
    /\ r2s' = Tail(r2s)
    /\ Len(Head(r2s)) < 3 + sctx.address_extension_len

\* C34: isotp_send acts on each Flow Control frame using the length
\* actually returned by can_rx for that frame: a received frame shorter
\* than 3 + extension_len bytes makes isotp_send fail with EMSGSIZE, so
\* block size and STmin are never taken from bytes that a previously
\* transmitted frame left in the scratch buffer.
C34_ShortFc ==
    [][ ShortFcStep => (s_pc' = "done" /\ s_rc' = -EMSGSIZE) ]_vars

\* a two-byte FC.CTS has been acted on: the STmin was decoded from the
\* first data byte of the First Frame still in the scratch buffer
C34_Witness ==
    /\ sctx.address_extension_len = 0
    /\ s_loc.fs = "CTS"
    /\ s_loc.stmin_usec = send_buf[1] * USEC_PER_MSEC
    /\ Len(hist.sns) > 0

\* C35: for every sequence of frames a peer can deliver, isotp_recv writes
\* to the caller's buffer only at indices below the capacity passed in,
\* whether the data comes from a short-form SF, an escape-form SF, a First
\* Frame or a Consecutive Frame.
C35_WithinCapacity ==
    ~hist.oob

\* an escape-form SF announcing 20 bytes has been parsed into a buffer of
\* 8 bytes, and isotp_recv has returned without an error
C35_Witness ==
    /\ r_pc = "done" /\ r_rc >= 0
    /\ Len(recv_buf) = 8
    /\ hist.first[rctx.address_extension_len + 2] = 20
    /\ hist.oob

\* the other three sources of data stay within the capacity: whenever a
\* write went past it the first frame was an escape-form SF
C35_OtherSources ==
    hist.oob =>
        /\ Len(hist.first) > CAN_MAX_DATALEN
        /\ hist.first[rctx.address_extension_len + 1] = PCI_SF

\* a message of 100 bytes has been received from an FF and a CF on CAN FD
C35_Segmented ==
    /\ r_pc = "done" /\ r_rc = 100
    /\ ~hist.oob

\* isotp_recv takes a frame out of can_rx in the CF loop when more than
\* N_Cr has elapsed since the timer was last started
LateCfStep ==
    /\ r_pc = "cf_rx"
    /\ s2r # << >>
    /\ s2r' = Tail(s2r)
    /\ timeout_elapsed(rctx, now) > rctx.timeouts.n_cr

\* C36: a frame from the peer that arrives after the applicable protocol
\* timer bound has elapsed since the timer was last started is never
\* accepted, even when the per-call transport timeout is larger than the
\* protocol bound: isotp_recv does not copy data from a Consecutive Frame
\* arriving later than N_Cr (the counterpart for isotp_send and a late
\* Flow Control frame is C5_FcTimeout).
C36_LateFrame ==
    [][ LateCfStep => recv_buf' = recv_buf ]_vars

\* the data of a CF that arrived later than N_Cr has been copied and the
\* message has been completed with it
C36_Witness ==
    /\ hist.late_cf
    /\ r_pc = "done" /\ r_rc >= 0

\* isotp_recv takes a frame that is not a CF out of can_rx in the CF loop
NonCfStep ==
    /\ r_pc = "cf_rx"
    /\ s2r # << >>
    /\ s2r' = Tail(s2r)
    /\ PCI_MASK_HI(Head(s2r)[rctx.address_extension_len + 1]) # PCI_CF

\* C37: a non-CF frame received by isotp_recv during the CF loop does not
\* count toward the current block of bs Consecutive Frames and does not
\* restart N_Cr: after it, the receiver still expects the same number of
\* Consecutive Frames before its next FC.CTS and keeps the same timer
\* deadline.
C37_NonCfIgnored ==
    [][ (NonCfStep /\ r_pc' # "done") =>
            /\ r_loc'.bs = r_loc.bs
            /\ rctx'.timer_start_us = rctx.timer_start_us ]_vars

\* with a block size of 2, one frame that is not a CF has been received
\* since the FC.CTS and no CF has been accepted, and the receiver is back
\* at the head of its loop with one frame of the block left
C37_Witness ==
    /\ r_pc = "cf_loop"
    /\ r_loc.blocksize = 2
    /\ hist.cf_rx_since_fc = 1 /\ hist.cf_acc = 0
    /\ r_loc.bs = 1

\* isotp_recv takes a CF out of can_rx and accepts it
AcceptedCfStep ==
    /\ r_pc = "cf_rx"
    /\ s2r # << >>
    /\ s2r' = Tail(s2r)
    /\ hist'.cf_acc = hist.cf_acc + 1

\* C38: every Consecutive Frame that isotp_recv accepts decreases
\* remaining_datalen by at least one byte, so isotp_recv returns after
\* accepting at most as many Consecutive Frames as bytes remained after the
\* First Frame; a peer cannot keep the call running with correctly
\* sequenced Consecutive Frames that carry no payload.
C38_CfProgress ==
    [][ AcceptedCfStep =>
            rctx'.remaining_datalen < rctx.remaining_datalen ]_vars

\* two CFs in sequence have been accepted and remaining_datalen is what the
\* First Frame left
C38_Witness ==
    /\ r_pc = "cf_loop"
    /\ rctx.sequence_num = 3
    /\ rctx.remaining_datalen =
           rctx.total_datalen - (CAN_MAX_DATALEN - rctx.address_extension_len - 2)

\* every FC.CTS acted on is followed by at least one CF: when isotp_send
\* is back at its FC wait after an FC.CTS, the block has had a CF, and it
\* waits for an FC only while data remains
CtsPerCf ==
    /\ (s_pc \in {"loop_top", "fc_rx"} /\ s_loc.fs = "CTS") =>
           hist.cf_in_block >= 1
    /\ s_pc = "fc_rx" => sctx.remaining_datalen > 0

\* C39: with max_wait > 0, isotp_send returns after receiving a bounded
\* number of frames from the peer: at most max_wait consecutive FC.WAIT
\* frames per FC.CTS (one more ends the call), and at most one FC.CTS per
\* Consecutive Frame still to be sent.
C39_BoundedFrames ==
    sctx.fc_wait_max > 0 =>
        /\ hist.wait_run <= sctx.fc_wait_max + 1
        /\ hist.wait_run = sctx.fc_wait_max + 1 => s_pc = "done"
        /\ CtsPerCf

\* with max_wait = 255 the sender has taken 257 consecutive FC.WAIT frames
\* and is waiting for the next FC
C39_Witness ==
    /\ sctx.fc_wait_max = UINT8_MAX
    /\ hist.wait_run = UINT8_MAX + 2
    /\ s_pc = "fc_rx"

\* for caps below 255 the frames received are bounded as stated
C39_SmallCaps ==
    sctx.fc_wait_max \in 1..(UINT8_MAX - 1) =>
        /\ hist.wait_run <= sctx.fc_wait_max + 1
        /\ hist.wait_run = sctx.fc_wait_max + 1 => s_pc = "done"
        /\ CtsPerCf

====
